---- MODULE Spec2Model ----
(***************************************************************************)
(* State-machine model of the ecco9 core:                                  *)
(*   - AutonomousWakeRestController (core/autonomous_wake_rest_controller) *)
(*   - UnifiedOrchestrator          (core/unified_orchestrator)            *)
(*                                                                         *)
(* Arithmetic.  The Python code computes in floats; the model computes the *)
(* same formulas exactly, in fixed point:                                  *)
(*   time                  whole seconds                                   *)
(*   cognitive_fatigue     units of 1/FScale   (FScale = 1 200 000)        *)
(*   consolidation_pressure units of 1/PScale  (PScale = 102 400)          *)
(*   processing_quality, coherence_level   hundredths (0..100)             *)
(*   optimal_*_duration    milliseconds                                    *)
(* With time in seconds and quality in hundredths every fatigue increment  *)
(* rate * (time_in_state / 60) is a whole number of units.                 *)
(*                                                                         *)
(* Clock.  The controller reads time.time() only to form                   *)
(*   time_in_state = time.time() - self.state_entered_time,                *)
(* so the model keeps that difference as the variable time_in_state: Tick  *)
(* advances it, _transition_to_state (state_entered_time = time.time())    *)
(* resets it to 0.  The clock reads made inside one call are taken at the  *)
(* same instant.                                                           *)
(***************************************************************************)
EXTENDS Integers, Sequences, FiniteSets, TLC

VARIABLES
    \* ---- AutonomousWakeRestController fields
    state,                      \* self.state
    time_in_state,              \* time.time() - self.state_entered_time
    cognitive_fatigue,          \* self.cognitive_fatigue
    consolidation_pressure,     \* self.consolidation_pressure
    activity_duration,          \* self.activity_duration
    rest_duration,              \* self.rest_duration
    total_cycles,               \* self.total_cycles
    optimal_activity_duration,  \* self.optimal_activity_duration
    optimal_rest_duration,      \* self.optimal_rest_duration
    recent_processing_quality,  \* self.recent_processing_quality
    \* ---- record of the last controller call (what the call was given and did)
    last_op,                    \* name of the last operation
    last_result,                \* what should_rest_now / should_wake_now returned
    op_transitions,             \* _transition_to_state log of the last call
    \* ---- UnifiedOrchestrator fields
    present,                    \* the collaborators passed to __init__ (not None)
    running,                    \* self.running
    cycle_count,                \* self.cycle_count
    context_history,            \* self.context_history
    \* ---- the consolidation subsystem's readable flag (echodream.running)
    echodream_running,
    \* ---- the coroutines: one per start() call and one per stop() call
    start_pc,                   \* where each start() call is suspended
    sleep_for,                  \* the asyncio.sleep a start() call is in
    trace,                      \* what the loop iteration of the last step did
    stop_pc,                    \* where each stop() call is suspended
    \* ---- record of the orchestrator's last step
    completed_cycles,           \* cycles that ran all seven phases
    error_count,                \* errors the loop has caught and logged
    last_event,                 \* the last step: its kind, its task, and how
                                \* the loop iteration it ran (if any) ended
    \* ---- a WisdomMetrics object and the calls made on it
    wisdom,                     \* the object's fields
    wisdom_op,                  \* name of the last call
    wisdom_arg,                 \* argument of the last add_* call
    wisdom_runs,                \* runs of equal arguments in the call sequence
    wisdom_loads,               \* save_to_file / load_from_file round trips made
    wisdom_scores,              \* what the last call returned
    \* ---- an EchoInterest object and the calls made on it
    interest,                   \* the object's fields
    interest_now,               \* time.time(), in days
    interest_op,                \* the last call, its arguments and result
    interest_calls              \* calls made on the object

wr_vars == <<state, time_in_state, cognitive_fatigue, consolidation_pressure,
             activity_duration, rest_duration, total_cycles,
             optimal_activity_duration, optimal_rest_duration,
             recent_processing_quality>>
wr_hist == <<last_op, op_transitions, last_result>>
orch_vars == <<present, running, cycle_count, context_history,
               echodream_running, start_pc, sleep_for, trace, stop_pc,
               completed_cycles, error_count, last_event>>
wisdom_vars == <<wisdom, wisdom_op, wisdom_arg, wisdom_runs, wisdom_loads,
                 wisdom_scores>>
interest_vars == <<interest, interest_now, interest_op, interest_calls>>
lib_vars == <<wisdom_vars, interest_vars>>
vars == <<wr_vars, wr_hist, orch_vars, lib_vars>>

-----------------------------------------------------------------------------
\* Bounds of the model
MaxUpdates == 3
MaxCycles == 1
BurstCalls == 10
BurstWindow == 60
MaxStartCalls == 2
MaxStopCalls == 2
MaxCycleCount == 102
MaxShortCycles == 3
MaxErrors == 2
OrchMaxTime == 5
MaxWisdomCalls == 32
MaxWisdomRuns == 3
MaxSavedCalls == 8
MaxWisdomLoads == 1
MaxInterestCalls == 4
MaxActiveCalls == 4
MaxDays == 2
MaxInterestDays == 1
MaxRangeCalls == 5
KeenEncounters == 3
WornEncounters == 8

\* Inputs the callers are drawn from
TimeGrid == {60, 180, 3000}
BurstSteps == {5, 20}
RestGrid == {15, 130, 700}
Quality == {0, 100}
Coherence == {0, 100}
Memories == {0, 70}
HandoverConfigs ==
    {{"wake_rest_controller", "echodream"},
     {"echobeats", "echodream", "wake_rest_controller"}}
LongRunConfigs == {{"wisdom_metrics"}}
Configs ==
    {{},
     {"wisdom_metrics"},
     {"wake_rest_controller"},
     {"wake_rest_controller", "wisdom_metrics"},
     {"wake_rest_controller", "echodream"},
     {"echobeats", "echodream", "emotion_system", "theory_of_mind",
      "interest_tracker", "wisdom_metrics"},
     {"echobeats", "echodream", "emotion_system", "theory_of_mind",
      "interest_tracker", "wisdom_metrics", "wake_rest_controller"}}

-----------------------------------------------------------------------------
\* Fixed-point scales
FScale == 12 * 100000
PScale == 100 * 1024
MsPerSecond == 10 * 100

Min(a, b) == IF a < b THEN a ELSE b
Max(a, b) == IF a > b THEN a ELSE b

RECURSIVE SumSeq(_)
SumSeq(s) == IF s = <<>> THEN 0 ELSE Head(s) + SumSeq(Tail(s))

\* s[-n:]
LastN(s, n) == IF Len(s) > n THEN SubSeq(s, Len(s) - n + 1, Len(s)) ELSE s

-----------------------------------------------------------------------------
\* class ConsciousnessState
AWAKE == "awake"
DROWSY == "drowsy"
RESTING == "resting"
DEEP_REST == "deep_rest"
WAKING == "waking"
ConsciousnessState == {AWAKE, DROWSY, RESTING, DEEP_REST, WAKING}

\* AutonomousWakeRestController.__init__ constants
fatigue_accumulation_rate == FScale \div 100
fatigue_recovery_rate == (5 * FScale) \div 100
consolidation_threshold == (7 * PScale) \div 10
drowsy_threshold == (6 * FScale) \div 10
rest_threshold == (75 * FScale) \div 100
wake_threshold == (2 * FScale) \div 10
RecentCap == 20

\* The controller object as a record of its fields
Controller ==
    [state |-> state,
     time_in_state |-> time_in_state,
     cognitive_fatigue |-> cognitive_fatigue,
     consolidation_pressure |-> consolidation_pressure,
     activity_duration |-> activity_duration,
     rest_duration |-> rest_duration,
     total_cycles |-> total_cycles,
     optimal_activity_duration |-> optimal_activity_duration,
     optimal_rest_duration |-> optimal_rest_duration,
     recent_processing_quality |-> recent_processing_quality,
     log |-> <<>>]

\* AutonomousWakeRestController.__init__
NewController ==
    [state |-> AWAKE,
     time_in_state |-> 0,
     cognitive_fatigue |-> 0,
     consolidation_pressure |-> 0,
     activity_duration |-> 0,
     rest_duration |-> 0,
     total_cycles |-> 0,
     optimal_activity_duration |-> 3600 * MsPerSecond,
     optimal_rest_duration |-> 600 * MsPerSecond,
     recent_processing_quality |-> <<>>,
     log |-> <<>>]

\* Variant of AccumulatedFatigue that takes time_in_state as minutes (no / 60)
AccumulatedFatiguePerSecond(c, processing_quality, coherence_level) ==
    LET t == c.time_in_state
        base == fatigue_accumulation_rate * t
        quality == ((100 - processing_quality) * 5 * (FScale \div 1000) * t) \div 100
        coherence == ((100 - coherence_level) * 5 * (FScale \div 1000) * t) \div 100
    IN  c.cognitive_fatigue + base + quality + coherence

\* _update_awake_state
AccumulatedFatigue(c, processing_quality, coherence_level) ==
    LET t == c.time_in_state
        \* rate * minutes_active, in fatigue units: (FScale/100) * t / 60
        base == (fatigue_accumulation_rate * t) \div 60
        \* (1 - q) * 0.005 * minutes_active
        quality == ((100 - processing_quality) * 5 * (FScale \div 1000) * t) \div 6000
        coherence == ((100 - coherence_level) * 5 * (FScale \div 1000) * t) \div 6000
    IN  c.cognitive_fatigue + base + quality + coherence

\* Variant of CapFatigue without the min(1.0, ...)
CapFatigueUnclamped(f) == f

CapFatigue(f) == Min(FScale, f)

CapPressure(p) == Min(PScale, p)

\* Variant of UpdateAwakeState that sets consolidation_pressure from the new
\* memories of this call alone
UpdateAwakeStateForgetful(c, processing_quality, coherence_level, new_memories) ==
    [c EXCEPT
        !.cognitive_fatigue =
            CapFatigue(AccumulatedFatigue(c, processing_quality, coherence_level)),
        !.consolidation_pressure =
            CapPressure(new_memories * (PScale \div 100)),
        !.activity_duration = c.time_in_state]

UpdateAwakeState(c, processing_quality, coherence_level, new_memories) ==
    [c EXCEPT
        !.cognitive_fatigue =
            CapFatigue(AccumulatedFatigue(c, processing_quality, coherence_level)),
        !.consolidation_pressure =
            CapPressure(c.consolidation_pressure + new_memories * (PScale \div 100)),
        !.activity_duration = c.time_in_state]

\* _update_resting_state
FloorFatigue(f) == Max(0, f)

UpdateRestingState(c, consolidation_occurred) ==
    [c EXCEPT
        !.cognitive_fatigue =
            FloorFatigue(c.cognitive_fatigue
                         - (fatigue_recovery_rate * c.time_in_state) \div 60),
        !.consolidation_pressure =
            IF consolidation_occurred
            THEN c.consolidation_pressure \div 2
            ELSE c.consolidation_pressure,
        !.rest_duration = c.time_in_state]

\* Variant of CheckStateTransitions that tests the wake condition of RESTING
\* before the deep-rest timer and the recovery of DROWSY before its thresholds
CheckStateTransitionsWakeFirst(c) ==
    CASE c.state = AWAKE ->
            IF c.cognitive_fatigue >= drowsy_threshold THEN DROWSY
            ELSE IF c.consolidation_pressure >= consolidation_threshold THEN DROWSY
            ELSE c.state
      [] c.state = DROWSY ->
            IF 10 * c.cognitive_fatigue < 8 * drowsy_threshold THEN AWAKE
            ELSE IF c.cognitive_fatigue >= rest_threshold THEN RESTING
            ELSE IF c.consolidation_pressure >= consolidation_threshold THEN RESTING
            ELSE c.state
      [] c.state = RESTING ->
            IF c.cognitive_fatigue < wake_threshold
               /\ 10 * c.consolidation_pressure < 3 * PScale THEN WAKING
            ELSE IF c.time_in_state > 120 THEN DEEP_REST
            ELSE c.state
      [] c.state = DEEP_REST ->
            IF c.cognitive_fatigue < wake_threshold
               /\ 10 * c.consolidation_pressure < 2 * PScale THEN WAKING
            ELSE IF c.time_in_state * MsPerSecond > c.optimal_rest_duration
                    /\ 10 * c.cognitive_fatigue < 3 * FScale THEN WAKING
            ELSE c.state
      [] c.state = WAKING ->
            IF c.time_in_state > 10 THEN AWAKE ELSE c.state

\* Variant of CheckStateTransitions whose threshold tests are strict (>)
CheckStateTransitionsStrict(c) ==
    CASE c.state = AWAKE ->
            IF c.cognitive_fatigue > drowsy_threshold THEN DROWSY
            ELSE IF c.consolidation_pressure > consolidation_threshold THEN DROWSY
            ELSE c.state
      [] c.state = DROWSY ->
            IF c.cognitive_fatigue > rest_threshold THEN RESTING
            ELSE IF c.consolidation_pressure > consolidation_threshold THEN RESTING
            ELSE IF 10 * c.cognitive_fatigue < 8 * drowsy_threshold THEN AWAKE
            ELSE c.state
      [] c.state = RESTING ->
            IF c.time_in_state > 120 THEN DEEP_REST
            ELSE IF c.cognitive_fatigue < wake_threshold
                    /\ 10 * c.consolidation_pressure < 3 * PScale THEN WAKING
            ELSE c.state
      [] c.state = DEEP_REST ->
            IF c.cognitive_fatigue < wake_threshold
               /\ 10 * c.consolidation_pressure < 2 * PScale THEN WAKING
            ELSE IF c.time_in_state * MsPerSecond > c.optimal_rest_duration
                    /\ 10 * c.cognitive_fatigue < 3 * FScale THEN WAKING
            ELSE c.state
      [] c.state = WAKING ->
            IF c.time_in_state > 10 THEN AWAKE ELSE c.state

\* Variant of CheckStateTransitions whose DEEP_REST has no timed exit
CheckStateTransitionsNoTimedExit(c) ==
    CASE c.state = AWAKE ->
            IF c.cognitive_fatigue >= drowsy_threshold THEN DROWSY
            ELSE IF c.consolidation_pressure >= consolidation_threshold THEN DROWSY
            ELSE c.state
      [] c.state = DROWSY ->
            IF c.cognitive_fatigue >= rest_threshold THEN RESTING
            ELSE IF c.consolidation_pressure >= consolidation_threshold THEN RESTING
            ELSE IF 10 * c.cognitive_fatigue < 8 * drowsy_threshold THEN AWAKE
            ELSE c.state
      [] c.state = RESTING ->
            IF c.time_in_state > 120 THEN DEEP_REST
            ELSE IF c.cognitive_fatigue < wake_threshold
                    /\ 10 * c.consolidation_pressure < 3 * PScale THEN WAKING
            ELSE c.state
      [] c.state = DEEP_REST ->
            IF c.cognitive_fatigue < wake_threshold
               /\ 10 * c.consolidation_pressure < 2 * PScale THEN WAKING
            ELSE c.state
      [] c.state = WAKING ->
            IF c.time_in_state > 10 THEN AWAKE ELSE c.state

\* _check_state_transitions
CheckStateTransitions(c) ==
    CASE c.state = AWAKE ->
            IF c.cognitive_fatigue >= drowsy_threshold THEN DROWSY
            ELSE IF c.consolidation_pressure >= consolidation_threshold THEN DROWSY
            ELSE c.state
      [] c.state = DROWSY ->
            IF c.cognitive_fatigue >= rest_threshold THEN RESTING
            ELSE IF c.consolidation_pressure >= consolidation_threshold THEN RESTING
            ELSE IF 10 * c.cognitive_fatigue < 8 * drowsy_threshold THEN AWAKE
            ELSE c.state
      [] c.state = RESTING ->
            IF c.time_in_state > 120 THEN DEEP_REST
            ELSE IF c.cognitive_fatigue < wake_threshold
                    /\ 10 * c.consolidation_pressure < 3 * PScale THEN WAKING
            ELSE c.state
      [] c.state = DEEP_REST ->
            IF c.cognitive_fatigue < wake_threshold
               /\ 10 * c.consolidation_pressure < 2 * PScale THEN WAKING
            ELSE IF c.time_in_state * MsPerSecond > c.optimal_rest_duration
                    /\ 10 * c.cognitive_fatigue < 3 * FScale THEN WAKING
            ELSE c.state
      [] c.state = WAKING ->
            IF c.time_in_state > 10 THEN AWAKE ELSE c.state

\* _update_optimal_durations
UpdateOptimalDurations(c) ==
    LET q == c.recent_processing_quality
        \* avg_quality > 0.7  <=>  sum > 70 * max(1, len)   (hundredths).
        \* The comparison is exact here; the float average can differ from
        \* it only when the exact average is 0.7 itself, which the qualities
        \* the model feeds in (Quality, and 80 from the orchestrator) never give.
        good == SumSeq(q) > 70 * Max(1, Len(q))
    IN  IF good
        THEN [c EXCEPT
                !.optimal_activity_duration =
                    (9 * c.optimal_activity_duration
                     + c.activity_duration * MsPerSecond) \div 10,
                !.optimal_rest_duration =
                    (9 * c.optimal_rest_duration
                     + c.rest_duration * MsPerSecond) \div 10]
        ELSE [c EXCEPT
                !.optimal_activity_duration = (95 * c.optimal_activity_duration) \div 100,
                !.optimal_rest_duration = (105 * c.optimal_rest_duration) \div 100]

\* _transition_to_state that counts a cycle on entering AWAKE as well
TransitionToStateCountsAwake(c, new_state) ==
    LET moved == [c EXCEPT !.state = new_state,
                           !.time_in_state = 0,
                           !.log = Append(c.log, <<c.state, new_state>>)]
    IN  IF new_state = WAKING
        THEN UpdateOptimalDurations([moved EXCEPT !.total_cycles = c.total_cycles + 1])
        ELSE IF new_state = AWAKE
        THEN [moved EXCEPT !.total_cycles = c.total_cycles + 1]
        ELSE moved

\* _transition_to_state
TransitionToState(c, new_state) ==
    LET moved == [c EXCEPT !.state = new_state,
                           !.time_in_state = 0,
                           !.log = Append(c.log, <<c.state, new_state>>)]
    IN  IF new_state = WAKING
        THEN UpdateOptimalDurations([moved EXCEPT !.total_cycles = c.total_cycles + 1])
        ELSE moved

\* update
TrackQuality(c, processing_quality) ==
    [c EXCEPT !.recent_processing_quality =
                  LastN(Append(c.recent_processing_quality, processing_quality),
                        RecentCap)]

\* Variant of UpdateMetrics that treats WAKING as an active state
UpdateMetricsWakingActive(c, processing_quality, coherence_level, new_memories, consolidation_occurred) ==
    IF c.state \in {AWAKE, DROWSY, WAKING}
    THEN UpdateAwakeState(c, processing_quality, coherence_level, new_memories)
    ELSE IF c.state \in {RESTING, DEEP_REST}
    THEN UpdateRestingState(c, consolidation_occurred)
    ELSE c

UpdateMetrics(c, processing_quality, coherence_level, new_memories, consolidation_occurred) ==
    IF c.state \in {AWAKE, DROWSY}
    THEN UpdateAwakeState(c, processing_quality, coherence_level, new_memories)
    ELSE IF c.state \in {RESTING, DEEP_REST}
    THEN UpdateRestingState(c, consolidation_occurred)
    ELSE c

\* Variant of ApplyTransition that re-checks after a transition and moves again
ApplyTransitionChained(c) ==
    LET new_state == CheckStateTransitions(c)
        moved == IF new_state # c.state THEN TransitionToState(c, new_state) ELSE c
        next_state == CheckStateTransitions(moved)
    IN  IF next_state # moved.state
        THEN TransitionToState(moved, next_state)
        ELSE moved

ApplyTransition(c) ==
    LET new_state == CheckStateTransitions(c)
    IN  IF new_state # c.state THEN TransitionToState(c, new_state) ELSE c

Update(c, processing_quality, coherence_level, new_memories, consolidation_occurred) ==
    ApplyTransition(
        UpdateMetrics(TrackQuality(c, processing_quality),
                      processing_quality, coherence_level, new_memories,
                      consolidation_occurred))

\* should_rest_now that answers for an AWAKE controller only
ShouldRestNowAwakeOnly(c) ==
    /\ c.state = AWAKE
    /\ \/ c.cognitive_fatigue >= rest_threshold
       \/ c.consolidation_pressure >= consolidation_threshold

\* should_rest_now / should_wake_now
ShouldRestNow(c) ==
    \/ c.cognitive_fatigue >= rest_threshold
    \/ c.consolidation_pressure >= consolidation_threshold

ShouldWakeNow(c) ==
    /\ c.state \in {RESTING, DEEP_REST}
    /\ c.cognitive_fatigue < wake_threshold
    /\ 10 * c.consolidation_pressure < 3 * PScale

\* force_rest / force_wake
ForceRestOp(c) == TransitionToState(c, RESTING)

\* Variant of ForceWakeOp that leaves consolidation_pressure as it was
ForceWakeOpKeepsPressure(c) ==
    [TransitionToState(c, AWAKE) EXCEPT !.cognitive_fatigue = 0]

ForceWakeOp(c) ==
    [TransitionToState(c, AWAKE) EXCEPT !.cognitive_fatigue = 0,
                                        !.consolidation_pressure = 0]

-----------------------------------------------------------------------------
\* UnifiedOrchestrator

\* class OrchestrationPhase
PERCEPTION == "perception"
COGNITION == "cognition"
EMOTION == "emotion"
SOCIAL == "social"
LEARNING == "learning"
CONSOLIDATION == "consolidation"
INTEGRATION == "integration"

\* Variant of PhaseOrder with the emotion phase before the cognition phase
PhaseOrderSwapped == <<PERCEPTION, EMOTION, COGNITION, SOCIAL, LEARNING,
                       CONSOLIDATION, INTEGRATION>>

\* the order of the calls in _run_orchestration_cycle
PhaseOrder == <<PERCEPTION, COGNITION, EMOTION, SOCIAL, LEARNING,
                CONSOLIDATION, INTEGRATION>>

\* the optional collaborators of __init__
Subsystems == {"echobeats", "echodream", "emotion_system", "theory_of_mind",
               "interest_tracker", "wisdom_metrics", "wake_rest_controller"}

HistoryCap == 100

\* WisdomMetrics.calculate_coherence_score of a wisdom object that has no
\* coherence history (the orchestrator adds none), in hundredths
CoherenceScore == 50

\* The orchestrator object (with its controller and the consolidation
\* subsystem's flag) as a record
Orchestrator ==
    [present |-> present,
     running |-> running,
     cycle_count |-> cycle_count,
     context_history |-> context_history,
     echodream_running |-> echodream_running,
     controller |-> Controller,
     updates |-> 0,
     completed_cycles |-> completed_cycles,
     error_count |-> error_count]

\* OrchestrationContext(...) in _run_orchestration_cycle
NewContext(o) ==
    [cycle |-> o.cycle_count,
     phase |-> PERCEPTION,
     inputs |-> {},
     outputs |-> {},
     integration_complete |-> FALSE]

\* _phase_perception .. _phase_integration
PhasePerception(o, ctx) ==
    [ctx EXCEPT
        !.phase = PERCEPTION,
        !.inputs = ctx.inputs
            \cup (IF "wake_rest_controller" \in o.present
                  THEN {"wake_rest_state", "cognitive_fatigue"} ELSE {})
            \cup (IF "interest_tracker" \in o.present
                  THEN {"active_interests", "exploration_goals"} ELSE {})
            \cup (IF "wisdom_metrics" \in o.present
                  THEN {"wisdom_scores"} ELSE {})]

PhaseCognition(o, ctx) ==
    [ctx EXCEPT
        !.phase = COGNITION,
        !.outputs = ctx.outputs
            \cup (IF "echobeats" \in o.present
                  THEN {"echobeats_step", "echobeats_phase"} ELSE {})]

\* Variant of PhaseEmotion that reports the emotion system without testing it
PhaseEmotionUntested(o, ctx) ==
    [ctx EXCEPT
        !.phase = EMOTION,
        !.outputs = ctx.outputs \cup {"emotion_system_active"}]

PhaseEmotion(o, ctx) ==
    [ctx EXCEPT
        !.phase = EMOTION,
        !.outputs = ctx.outputs
            \cup (IF "emotion_system" \in o.present
                  THEN {"emotion_system_active"} ELSE {})]

PhaseSocial(o, ctx) ==
    [ctx EXCEPT
        !.phase = SOCIAL,
        !.outputs = ctx.outputs
            \cup (IF "theory_of_mind" \in o.present THEN {"tom_active"} ELSE {})]

PhaseLearning(o, ctx) ==
    [ctx EXCEPT
        !.phase = LEARNING,
        !.outputs = ctx.outputs
            \cup (IF "interest_tracker" \in o.present
                  THEN {"interest_tracking_active"} ELSE {})
            \cup (IF "wisdom_metrics" \in o.present
                  THEN {"current_wisdom"} ELSE {})]

PhaseConsolidation(o, ctx) ==
    [ctx EXCEPT
        !.phase = CONSOLIDATION,
        !.outputs = ctx.outputs
            \cup (IF /\ "wake_rest_controller" \in o.present
                     /\ o.controller.state \in {RESTING, DEEP_REST}
                     /\ "echodream" \in o.present
                  THEN {"consolidation_active"} ELSE {})]

PhaseIntegration(o, ctx) ==
    [ctx EXCEPT !.phase = INTEGRATION, !.integration_complete = TRUE]

RunPhase(p, o, ctx) ==
    CASE p = PERCEPTION -> PhasePerception(o, ctx)
      [] p = COGNITION -> PhaseCognition(o, ctx)
      [] p = EMOTION -> PhaseEmotion(o, ctx)
      [] p = SOCIAL -> PhaseSocial(o, ctx)
      [] p = LEARNING -> PhaseLearning(o, ctx)
      [] p = CONSOLIDATION -> PhaseConsolidation(o, ctx)
      [] p = INTEGRATION -> PhaseIntegration(o, ctx)

\* The phases in which the code calls into a collaborator, whose call may raise
FailablePhases(o) ==
    (IF {"interest_tracker", "wisdom_metrics"} \cap o.present # {}
     THEN {PERCEPTION} ELSE {})
    \cup (IF "echobeats" \in o.present THEN {COGNITION} ELSE {})
    \cup (IF "wisdom_metrics" \in o.present THEN {LEARNING} ELSE {})

\* The phase calls of _run_orchestration_cycle from the k-th on; `failing` is
\* the phase whose collaborator call raises ("none": no call raises)
RECURSIVE RunPhasesFrom(_, _, _, _)
RunPhasesFrom(k, o, ctx, failing) ==
    IF k > Len(PhaseOrder)
    THEN [ok |-> TRUE, ctx |-> ctx, ran |-> <<>>]
    ELSE LET p == PhaseOrder[k]
         IN  IF p = failing
             THEN [ok |-> FALSE, ctx |-> [ctx EXCEPT !.phase = p], ran |-> <<p>>]
             ELSE LET rest == RunPhasesFrom(k + 1, o, RunPhase(p, o, ctx), failing)
                  IN  [rest EXCEPT !.ran = <<p>> \o rest.ran]

\* self.context_history.append(context); keep the last 100
StoreContext(history, ctx) == LastN(Append(history, ctx), HistoryCap)

\* _run_orchestration_cycle
RunOrchestrationCycle(o, failing) ==
    LET r == RunPhasesFrom(1, o, NewContext(o), failing)
    IN  IF r.ok
        THEN [ok |-> TRUE,
              o |-> [o EXCEPT
                       !.context_history = StoreContext(o.context_history, r.ctx),
                       !.completed_cycles = o.completed_cycles + 1],
              ran |-> r.ran]
        ELSE [ok |-> FALSE, o |-> o, ran |-> r.ran]

\* the adaptive sleep at the end of a loop iteration
CycleSleep(o) ==
    IF "wake_rest_controller" \in o.present
    THEN IF o.controller.state \in {RESTING, DEEP_REST} THEN 5 ELSE 1
    ELSE 1

\* Variant of CycleError that counts the abandoned cycle
CycleErrorCounted(o, did) ==
    [o |-> [o EXCEPT !.error_count = o.error_count + 1,
                     !.cycle_count = o.cycle_count + 1],
     pc |-> "sleep", sleep_for |-> 1,
     trace |-> Append(did, "error"), loop |-> "cycle_error"]

\* Variant of CycleError that lets the error end the loop
CycleErrorFatal(o, did) ==
    [o |-> [o EXCEPT !.error_count = o.error_count + 1],
     pc |-> "returned", sleep_for |-> 0,
     trace |-> Append(did, "error"), loop |-> "cycle_error"]

\* the except branch of _orchestration_loop: log and back off
CycleError(o, did) ==
    [o |-> [o EXCEPT !.error_count = o.error_count + 1],
     pc |-> "sleep", sleep_for |-> 1,
     trace |-> Append(did, "error"), loop |-> "cycle_error"]

\* _orchestration_loop, from the call of _run_orchestration_cycle to the sleep
CycleAndSleep(o, env, did) ==
    LET r == RunOrchestrationCycle(o, env.failing)
    IN  IF r.ok
        THEN [o |-> [r.o EXCEPT !.cycle_count = r.o.cycle_count + 1],
              pc |-> "sleep", sleep_for |-> CycleSleep(r.o),
              trace |-> did \o r.ran, loop |-> "cycle_done"]
        ELSE CycleError(r.o, did \o r.ran)

\* Variant of CheckWakeRestState that starts the consolidation subsystem in
\* DEEP_REST as well and stops it in WAKING as well
CheckWakeRestStateWide(o, env) ==
    IF "wake_rest_controller" \notin o.present
    THEN [outcome |-> "return", o |-> o, did |-> <<>>]
    ELSE IF "wisdom_metrics" \in o.present /\ env.wisdom_raises
    THEN [outcome |-> "raise", o |-> o, did |-> <<>>]
    ELSE LET coherence_level == IF "wisdom_metrics" \in o.present
                                THEN CoherenceScore ELSE 80
             c == Update(o.controller, 80, coherence_level, 0, FALSE)
             o1 == [o EXCEPT !.controller = c, !.updates = o.updates + 1]
             new_state == c.state
         IN  IF new_state \in {RESTING, DEEP_REST} /\ "echodream" \in o.present
             THEN IF ~o.echodream_running
                  THEN [outcome |-> "await_start", o |-> o1, did |-> <<"update">>]
                  ELSE [outcome |-> "return", o |-> o1, did |-> <<"update">>]
             ELSE IF new_state \in {AWAKE, WAKING} /\ "echodream" \in o.present
             THEN IF o.echodream_running
                  THEN [outcome |-> "await_stop", o |-> o1, did |-> <<"update">>]
                  ELSE [outcome |-> "return", o |-> o1, did |-> <<"update">>]
             ELSE [outcome |-> "return", o |-> o1, did |-> <<"update">>]

\* _check_wake_rest_state up to its first await (or to its return)
CheckWakeRestState(o, env) ==
    IF "wake_rest_controller" \notin o.present
    THEN [outcome |-> "return", o |-> o, did |-> <<>>]
    ELSE IF "wisdom_metrics" \in o.present /\ env.wisdom_raises
    THEN [outcome |-> "raise", o |-> o, did |-> <<>>]
    ELSE LET coherence_level == IF "wisdom_metrics" \in o.present
                                THEN CoherenceScore ELSE 80
             c == Update(o.controller, 80, coherence_level, 0, FALSE)
             o1 == [o EXCEPT !.controller = c, !.updates = o.updates + 1]
             new_state == c.state
         IN  IF new_state = RESTING /\ "echodream" \in o.present
             THEN IF ~o.echodream_running
                  THEN [outcome |-> "await_start", o |-> o1, did |-> <<"update">>]
                  ELSE [outcome |-> "return", o |-> o1, did |-> <<"update">>]
             ELSE IF new_state = AWAKE /\ "echodream" \in o.present
             THEN IF o.echodream_running
                  THEN [outcome |-> "await_stop", o |-> o1, did |-> <<"update">>]
                  ELSE [outcome |-> "return", o |-> o1, did |-> <<"update">>]
             ELSE [outcome |-> "return", o |-> o1, did |-> <<"update">>]

\* the body of the while loop of _orchestration_loop, to its next await
LoopBody(o, env) ==
    LET chk == CheckWakeRestState(o, env)
    IN  CASE chk.outcome = "raise" -> CycleError(chk.o, chk.did)
          [] chk.outcome = "await_start" ->
               [o |-> chk.o, pc |-> "check_start", sleep_for |-> 0,
                trace |-> chk.did, loop |-> "await"]
          [] chk.outcome = "await_stop" ->
               [o |-> chk.o, pc |-> "check_stop", sleep_for |-> 0,
                trace |-> chk.did, loop |-> "await"]
          [] chk.outcome = "return" -> CycleAndSleep(chk.o, env, chk.did)

\* Variant of LoopIteration that sleeps on when running is false
LoopIterationSleepsOn(o, env) ==
    IF ~o.running
    THEN [o |-> o, pc |-> "sleep", sleep_for |-> 1, trace |-> <<>>,
          loop |-> "loop_exit"]
    ELSE LoopBody(o, env)

\* _orchestration_loop from the test of `while self.running` to the next await
LoopIteration(o, env) ==
    IF ~o.running
    THEN [o |-> o, pc |-> "returned", sleep_for |-> 0, trace |-> <<>>,
          loop |-> "loop_exit"]
    ELSE LoopBody(o, env)

\* the consolidation subsystem's Start() / Stop(), run by asyncio.to_thread
EchodreamStart(flag, raised) == IF raised THEN flag ELSE TRUE
EchodreamStop(flag, raised) == IF raised THEN flag ELSE FALSE

\* _check_wake_rest_state resumed after its awaited Start / Stop call
AfterCheckAwait(o, env, did, raised) ==
    IF raised THEN CycleError(o, did) ELSE CycleAndSleep(o, env, did)

\* _start_subsystems, then _orchestration_loop
StartSubsystems(o, env) ==
    IF "echobeats" \in o.present
    THEN [o |-> o, pc |-> "start_echobeats", sleep_for |-> 0, trace |-> <<>>,
          loop |-> "none"]
    ELSE IF "echodream" \in o.present
    THEN [o |-> o, pc |-> "start_echodream", sleep_for |-> 0, trace |-> <<>>,
          loop |-> "none"]
    ELSE LoopIteration(o, env)

\* Variant of StartOp without the `if self.running` test
StartOpUnguarded(o, env) == StartSubsystems([o EXCEPT !.running = TRUE], env)

\* start()
StartOp(o, env) ==
    IF o.running
    THEN [o |-> o, pc |-> "ignored", sleep_for |-> 0, trace |-> <<>>,
          loop |-> "none"]
    ELSE StartSubsystems([o EXCEPT !.running = TRUE], env)

\* stop()
StopOp(o) ==
    IF ~o.running
    THEN [o |-> o, pc |-> "ignored"]
    ELSE LET o1 == [o EXCEPT !.running = FALSE]
         IN  IF "echobeats" \in o.present
             THEN [o |-> o1, pc |-> "stop_echobeats"]
             ELSE IF "echodream" \in o.present
             THEN [o |-> o1, pc |-> "stop_echodream"]
             ELSE [o |-> o1, pc |-> "returned"]

-----------------------------------------------------------------------------
\* WisdomMetrics
\*
\* Scores are kept in units of 1/WUnit.  Every division of the code is a
\* division rounded down here, so a modelled score differs from the float
\* the code computes by a few units at most.
WUnit == 100 * 100

Abs(x) == IF x < 0 THEN 0 - x ELSE x

\* max(0.0, min(1.0, x))
Clamp01(x) == Max(0, Min(WUnit, x))

RECURSIVE SumOver(_, _)
SumOver(s, field) ==
    IF s = <<>> THEN 0 ELSE Head(s)[field] + SumOver(Tail(s), field)

RECURSIVE SumNumbers(_)
SumNumbers(s) == IF s = <<>> THEN 0 ELSE Head(s) + SumNumbers(Tail(s))

FirstN(s, n) == SubSeq(s, 1, Min(n, Len(s)))

CountOver(s, field, bound) ==
    Cardinality({k \in 1..Len(s) : s[k][field] > bound})

\* WisdomMetrics.__init__
NewWisdom ==
    [insights |-> <<>>,
     belief_updates |-> <<>>,
     domain_knowledge |-> <<>>,
     domain_connections |-> {},
     worldview_coherence_history |-> <<>>,
     current_coherence |-> WUnit \div 2,
     belief_revision_count |-> 0,
     evidence_integration_score |-> WUnit \div 2,
     wisdom_history |-> <<>>]

\* domain_knowledge is a defaultdict(float): here a sequence of
\* <<domain, knowledge>> pairs in insertion order
HasDomain(dk, d) == \E k \in 1..Len(dk) : dk[k][1] = d

AddKnowledge(dk, d, amount) ==
    IF HasDomain(dk, d)
    THEN [k \in 1..Len(dk) |->
             IF dk[k][1] = d THEN <<d, dk[k][2] + amount>> ELSE dk[k]]
    ELSE Append(dk, <<d, amount>>)

RECURSIVE AddKnowledgeAll(_, _, _)
AddKnowledgeAll(dk, domains, amount) ==
    IF domains = <<>> THEN dk
    ELSE AddKnowledgeAll(AddKnowledge(dk, Head(domains), amount),
                         Tail(domains), amount)

\* the keys tuple(sorted([domain1, domain2])) of one insight's domain pairs
ConnectionKeys(domains) ==
    {{domains[a], domains[b]} : a \in 1..Len(domains), b \in 1..Len(domains)}
        \ {{domains[a]} : a \in {x \in 1..Len(domains) :
                                    \A y \in 1..Len(domains) :
                                        y # x => domains[y] # domains[x]}}

\* the coherence step without max(0.0, min(1.0, ...))
MoveCoherenceUnclamped(w, amount) ==
    LET c == w.current_coherence + amount \div 20
    IN  [w EXCEPT !.current_coherence = c,
                  !.worldview_coherence_history = Append(@, c)]

\* the coherence step shared by add_insight and add_belief_update
MoveCoherence(w, amount) ==
    LET c == Clamp01(w.current_coherence + amount \div 20)
    IN  [w EXCEPT !.current_coherence = c,
                  !.worldview_coherence_history = Append(@, c)]

\* add_insight up to the snapshot
AddInsightLogged(w, insight) ==
    MoveCoherence(
        [w EXCEPT
            !.insights = Append(@, insight),
            !.domain_knowledge =
                AddKnowledgeAll(@, insight.related_domains,
                                insight.depth_score \div 10),
            !.domain_connections = @ \cup ConnectionKeys(insight.related_domains)],
        insight.coherence_contribution)

\* add_belief_update up to the snapshot
AddBeliefUpdateLogged(w, update) ==
    MoveCoherence(
        [w EXCEPT
            !.belief_updates = Append(@, update),
            !.belief_revision_count = @ + 1,
            !.evidence_integration_score =
                (9 * @ + Abs(update.confidence_change)) \div 10],
        update.coherence_impact)

\* calculate_depth_score
DepthScore(w) ==
    IF w.insights = <<>> THEN 0
    ELSE LET recent == LastN(w.insights, 20)
             avg_depth == SumOver(recent, "depth_score") \div Len(recent)
             early_avg == SumOver(FirstN(w.insights, 10), "depth_score") \div 10
             depth_trend == IF Len(w.insights) > 10
                            THEN (avg_depth - early_avg) \div 2 ELSE 0
             fundamental_count == CountOver(w.insights, "depth_score",
                                            (8 * WUnit) \div 10)
             fundamental_bonus == Min((2 * WUnit) \div 10,
                                      fundamental_count * (WUnit \div 50))
         IN  Min(WUnit, avg_depth + depth_trend + fundamental_bonus)

\* calculate_breadth_score
BreadthScore(w) ==
    IF w.domain_knowledge = <<>> THEN 0
    ELSE LET dk == w.domain_knowledge
             values == [k \in 1..Len(dk) |-> dk[k][2]]
             meaningful_domains ==
                 Cardinality({k \in 1..Len(dk) : values[k] > WUnit \div 10})
             domain_diversity == Min(WUnit, (meaningful_domains * WUnit) \div 10)
             connection_score ==
                 Min(WUnit, (Cardinality(w.domain_connections) * WUnit) \div 20)
             total_knowledge == SumNumbers(values)
             largest == CHOOSE v \in {values[k] : k \in 1..Len(dk)} :
                            \A k \in 1..Len(dk) : values[k] <= v
             distribution_score ==
                 IF total_knowledge > 0
                 THEN WUnit - ((largest * WUnit) \div total_knowledge) \div 2
                 ELSE 0
         IN  (4 * domain_diversity + 4 * connection_score
              + 2 * distribution_score) \div 10

\* calculate_applicability_score
ApplicabilityScore(w) ==
    IF w.insights = <<>> THEN 0
    ELSE LET recent == LastN(w.insights, 20)
             avg_applicability ==
                 SumOver(recent, "applicability_score") \div Len(recent)
             high_count == CountOver(w.insights, "applicability_score",
                                     (7 * WUnit) \div 10)
             high_ratio == (high_count * WUnit) \div Len(w.insights)
         IN  (7 * avg_applicability + 3 * high_ratio) \div 10

\* calculate_coherence_score
CoherenceScoreOf(w) ==
    LET h == w.worldview_coherence_history
        current == w.current_coherence
    IN  IF h = <<>> THEN WUnit \div 2
        ELSE LET recent == LastN(h, 10)
                 squares == [k \in 1..Len(recent) |->
                                (recent[k] - current) * (recent[k] - current)]
                 variance == (SumNumbers(squares) \div Len(recent)) \div WUnit
                 stability == IF Len(h) > 5
                              THEN Max(0, WUnit - variance) ELSE WUnit \div 2
                 early_avg == SumNumbers(FirstN(h, 5)) \div 5
                 trend == IF Len(h) > 10 THEN (current - early_avg) \div 2 ELSE 0
             IN  Min(WUnit, (6 * current + 3 * stability + trend) \div 10)

\* calculate_adaptability_score
AdaptabilityScore(w) ==
    IF w.belief_updates = <<>> THEN WUnit \div 2
    ELSE LET frequency_score ==
                 IF w.insights # <<>>
                 THEN Min(WUnit, (2 * WUnit * Len(w.belief_updates))
                                     \div Len(w.insights))
                 ELSE 0
             recent == LastN(w.belief_updates, 10)
             impacts == [k \in 1..Len(recent) |-> Abs(recent[k].coherence_impact)]
             avg_coherence_impact == SumNumbers(impacts) \div Len(recent)
             balance_score ==
                 IF Len(w.belief_updates) > 5
                 THEN WUnit - Min(WUnit, 2 * avg_coherence_impact)
                 ELSE WUnit \div 2
         IN  (3 * frequency_score + 5 * w.evidence_integration_score
              + 2 * balance_score) \div 10

\* calculate_composite_wisdom_score
CompositeWisdomScore(w) ==
    LET depth == DepthScore(w)
        breadth == BreadthScore(w)
        applicability == ApplicabilityScore(w)
        coherence == CoherenceScoreOf(w)
        adaptability == AdaptabilityScore(w)
    IN  [depth |-> depth,
         breadth |-> breadth,
         applicability |-> applicability,
         coherence |-> coherence,
         adaptability |-> adaptability,
         composite_wisdom |->
             (25 * depth + 20 * breadth + 20 * applicability
              + 25 * coherence + 10 * adaptability) \div 100]

\* Variant of RecordWisdomSnapshot that records a snapshot only when the
\* scores have changed
RecordWisdomSnapshotOnChange(w) ==
    LET scores == CompositeWisdomScore(w)
        h == w.wisdom_history
    IN  IF h # <<>> /\ h[Len(h)] = scores
        THEN w
        ELSE [w EXCEPT !.wisdom_history = Append(@, scores)]

\* _record_wisdom_snapshot
RecordWisdomSnapshot(w) ==
    [w EXCEPT !.wisdom_history = Append(@, CompositeWisdomScore(w))]

\* add_insight
AddInsight(w, insight) == RecordWisdomSnapshot(AddInsightLogged(w, insight))

\* add_belief_update
AddBeliefUpdate(w, update) == RecordWisdomSnapshot(AddBeliefUpdateLogged(w, update))

\* save_to_file: the JSON document (current_metrics is written but never read)
WisdomSaveToFile(w) ==
    [insights |->
         [k \in 1..Len(w.insights) |->
             [depth_score |-> w.insights[k].depth_score,
              breadth_score |-> w.insights[k].breadth_score,
              applicability_score |-> w.insights[k].applicability_score,
              coherence_contribution |-> w.insights[k].coherence_contribution,
              related_domains |-> w.insights[k].related_domains]],
     belief_updates |->
         [k \in 1..Len(w.belief_updates) |->
             [confidence_change |-> w.belief_updates[k].confidence_change,
              coherence_impact |-> w.belief_updates[k].coherence_impact]],
     domain_knowledge |-> w.domain_knowledge]

\* _rebuild_derived_metrics: the coherence steps of all insights, then of all
\* belief updates
RECURSIVE RebuildCoherence(_, _)
RebuildCoherence(w, amounts) ==
    IF amounts = <<>> THEN w
    ELSE RebuildCoherence(MoveCoherence(w, Head(amounts)), Tail(amounts))

RECURSIVE RebuildConnections(_)
RebuildConnections(insights) ==
    IF insights = <<>> THEN {}
    ELSE ConnectionKeys(Head(insights).related_domains)
             \cup RebuildConnections(Tail(insights))

RECURSIVE RebuildSnapshots(_, _)
RebuildSnapshots(w, n) ==
    IF n = 0 THEN w ELSE RebuildSnapshots(RecordWisdomSnapshot(w), n - 1)

RebuildDerivedMetrics(w) ==
  RebuildSnapshots(
    RebuildCoherence(
        [w EXCEPT !.domain_connections = RebuildConnections(w.insights),
                  !.current_coherence = WUnit \div 2],
        [k \in 1..Len(w.insights) |-> w.insights[k].coherence_contribution]
            \o [k \in 1..Len(w.belief_updates) |->
                   w.belief_updates[k].coherence_impact]),
    Len(w.insights))

\* load_from_file
WisdomLoadFromFile(data) ==
    RebuildDerivedMetrics(
        [NewWisdom EXCEPT !.insights = data.insights,
                          !.belief_updates = data.belief_updates,
                          !.domain_knowledge = data.domain_knowledge])

\* ---- the calls made on the WisdomMetrics object
\* Arguments with every score field at an end or inside of its valid range
InsightArgs ==
    {[depth_score |-> (8 * WUnit) \div 10, breadth_score |-> 0,
      applicability_score |-> 0, coherence_contribution |-> WUnit,
      related_domains |-> <<>>],
     [depth_score |-> 0, breadth_score |-> 0,
      applicability_score |-> 0, coherence_contribution |-> 0 - WUnit,
      related_domains |-> <<>>],
     [depth_score |-> WUnit, breadth_score |-> WUnit,
      applicability_score |-> WUnit, coherence_contribution |-> WUnit,
      related_domains |-> <<"ethics", "physics">>]}

UpdateArgs ==
    {[confidence_change |-> 0, coherence_impact |-> 0 - WUnit],
     [confidence_change |-> 0 - WUnit, coherence_impact |-> WUnit \div 2]}

\* the calls that return None
NoScores == [none |-> TRUE]

InitWisdom ==
    /\ wisdom = NewWisdom
    /\ wisdom_op = "init"
    /\ wisdom_arg = [none |-> TRUE]
    /\ wisdom_runs = 0
    /\ wisdom_loads = 0
    /\ wisdom_scores = NoScores

\* the caller repeats an argument or changes it, MaxWisdomRuns runs at most
CountRun(arg) ==
    /\ Len(wisdom.insights) + Len(wisdom.belief_updates) < MaxWisdomCalls
    /\ wisdom_arg' = arg
    /\ wisdom_runs' = IF arg = wisdom_arg THEN wisdom_runs ELSE wisdom_runs + 1
    /\ wisdom_runs' <= MaxWisdomRuns

AddInsightCall(insight) ==
    /\ CountRun(insight)
    /\ wisdom' = AddInsight(wisdom, insight)
    /\ wisdom_op' = "add_insight"
    /\ wisdom_scores' = NoScores
    /\ UNCHANGED <<wisdom_loads, wr_vars, wr_hist, orch_vars, interest_vars>>

AddBeliefUpdateCall(update) ==
    /\ CountRun(update)
    /\ wisdom' = AddBeliefUpdate(wisdom, update)
    /\ wisdom_op' = "add_belief_update"
    /\ wisdom_scores' = NoScores
    /\ UNCHANGED <<wisdom_loads, wr_vars, wr_hist, orch_vars, interest_vars>>

WisdomCalls == Len(wisdom.insights) + Len(wisdom.belief_updates)

\* save_to_file, then load_from_file; the caller goes on with the loaded object
WisdomSaveLoad ==
    /\ wisdom_loads < MaxWisdomLoads
    /\ wisdom' = WisdomLoadFromFile(WisdomSaveToFile(wisdom))
    /\ wisdom_op' = "load_from_file"
    /\ wisdom_loads' = wisdom_loads + 1
    /\ wisdom_scores' = NoScores
    /\ UNCHANGED <<wisdom_arg, wisdom_runs, wr_vars, wr_hist, orch_vars, interest_vars>>

\* a score poll that records a snapshot as _record_wisdom_snapshot does
CalculateScoresSnapshotting(w) ==
    [w |-> [w EXCEPT !.wisdom_history = Append(@, CompositeWisdomScore(w))],
     scores |-> CompositeWisdomScore(w)]

\* calculate_composite_wisdom_score, as the orchestrator polls it: the object
\* after the call and the scores returned
CalculateScores(w) == [w |-> w, scores |-> CompositeWisdomScore(w)]

WisdomScoresCall ==
    /\ wisdom' = CalculateScores(wisdom).w
    /\ wisdom_scores' = CalculateScores(wisdom).scores
    /\ wisdom_op' = "calculate_composite_wisdom_score"
    /\ UNCHANGED <<wisdom_arg, wisdom_runs, wisdom_loads, wr_vars, wr_hist, orch_vars, interest_vars>>

-----------------------------------------------------------------------------
\* EchoInterest
\*
\* Valence, curiosity, progress, satisfaction, salience and priority are kept
\* in units of 1/IUnit; time is counted in whole days.  A Python dict is a
\* sequence of <<key, value>> pairs in insertion order.
IUnit == 100 * 100

DictHas(d, key) == \E k \in 1..Len(d) : d[k][1] = key

DictGet(d, key) == d[CHOOSE k \in 1..Len(d) : d[k][1] = key][2]

\* d[key] = value: an existing key keeps its place
DictSet(d, key, value) ==
    IF DictHas(d, key)
    THEN [k \in 1..Len(d) |-> IF d[k][1] = key THEN <<key, value>> ELSE d[k]]
    ELSE Append(d, <<key, value>>)

\* del d[key]
DictDel(d, key) == SelectSeq(d, LAMBDA kv : kv[1] # key)

DictKeys(d) == {d[k][1] : k \in 1..Len(d)}

\* math.exp(-days) and 0.95 ** days for days = 1, 2, 3, rounded down; both
\* are 1 at 0 days
ExpNegDays == <<3678, 1353, 497>>
DecayPowers == <<9500, 9025, 8573>>

Recency(days) == IF days = 0 THEN IUnit ELSE ExpNegDays[days]

DecayFactor(days) == IF days = 0 THEN IUnit ELSE DecayPowers[days]

\* EchoInterest.__init__
NewInterest ==
    [topic_engagements |-> <<>>,
     exploration_goals |-> <<>>,
     salience_map |-> <<>>,
     topic_clusters |-> <<>>,
     active_interests |-> <<>>]

\* _update_salience with the five factors weighted alike
UpdateSalienceEqualWeights(e, topic, now) ==
    IF ~DictHas(e.topic_engagements, topic) THEN e
    ELSE LET engagement == DictGet(e.topic_engagements, topic)
             recency == Recency(now - engagement.last_encounter)
             frequency == Min(IUnit, (engagement.encounter_count * IUnit) \div 10)
             emotional_factor == (engagement.emotional_valence + IUnit) \div 2
             learning_potential ==
                 IUnit - Abs(engagement.learning_progress - IUnit \div 2) * 2
             salience == (recency * 2 + frequency * 2 + emotional_factor * 2
                          + engagement.curiosity_level * 2
                          + learning_potential * 2) \div 10
         IN  [e EXCEPT !.salience_map = DictSet(@, topic, salience)]

\* _update_salience
UpdateSalience(e, topic, now) ==
    IF ~DictHas(e.topic_engagements, topic) THEN e
    ELSE LET engagement == DictGet(e.topic_engagements, topic)
             recency == Recency(now - engagement.last_encounter)
             frequency == Min(IUnit, (engagement.encounter_count * IUnit) \div 10)
             emotional_factor == (engagement.emotional_valence + IUnit) \div 2
             curiosity_factor == engagement.curiosity_level
             learning_potential ==
                 IUnit - Abs(engagement.learning_progress - IUnit \div 2) * 2
             salience == (recency * 3 + frequency * 2 + emotional_factor * 2
                          + curiosity_factor * 2 + learning_potential) \div 10
         IN  [e EXCEPT !.salience_map = DictSet(@, topic, salience)]

\* sorted(items, key=salience, reverse=True): a stable sort, so that items of
\* equal salience keep their insertion order
RECURSIVE SortedBySalience(_)
SortedBySalience(items) ==
    IF items = <<>> THEN <<>>
    ELSE LET first == CHOOSE k \in 1..Len(items) :
                          /\ \A j \in 1..Len(items) : items[j][2] <= items[k][2]
                          /\ \A j \in 1..(k - 1) : items[j][2] < items[k][2]
             rest == [j \in 1..(Len(items) - 1) |->
                         IF j < first THEN items[j] ELSE items[j + 1]]
         IN  <<items[first]>> \o SortedBySalience(rest)

ActiveCap == 5
ActiveThreshold == (3 * IUnit) \div 10

\* _update_active_interests without the salience > 0.3 filter
UpdateActiveInterestsUnfiltered(e) ==
    LET top == FirstN(SortedBySalience(e.salience_map), ActiveCap)
    IN  [e EXCEPT !.active_interests = [k \in 1..Len(top) |-> top[k][1]]]

\* _update_active_interests
UpdateActiveInterests(e) ==
    LET top == FirstN(SortedBySalience(e.salience_map), ActiveCap)
        kept == SelectSeq(top, LAMBDA kv : kv[2] > ActiveThreshold)
    IN  [e EXCEPT !.active_interests = [k \in 1..Len(kept) |-> kept[k][1]]]

\* record_topic_encounter without the clamp of curiosity_level
RecordTopicEncounterUnclamped(e, topic, duration, emotional_valence, learning_occurred, satisfaction, now) ==
    LET engagement ==
            IF ~DictHas(e.topic_engagements, topic)
            THEN [topic |-> topic,
                  first_encounter |-> now,
                  last_encounter |-> now,
                  encounter_count |-> 1,
                  total_duration |-> duration,
                  emotional_valence |-> emotional_valence,
                  curiosity_level |-> (7 * IUnit) \div 10,
                  learning_progress |->
                      IF learning_occurred THEN IUnit \div 10 ELSE 0,
                  satisfaction |-> satisfaction,
                  related_topics |-> {}]
            ELSE LET old == DictGet(e.topic_engagements, topic)
                     curiosity_change ==
                         (satisfaction - IUnit \div 2) \div 10
                         + (IF learning_occurred
                            THEN IUnit \div 10 ELSE 0 - IUnit \div 20)
                 IN  [old EXCEPT
                        !.last_encounter = now,
                        !.encounter_count = @ + 1,
                        !.total_duration = @ + duration,
                        !.emotional_valence =
                            (7 * @ + 3 * emotional_valence) \div 10,
                        !.learning_progress =
                            IF learning_occurred
                            THEN Min(IUnit, @ + IUnit \div 10) ELSE @,
                        !.satisfaction = (7 * @ + 3 * satisfaction) \div 10,
                        !.curiosity_level =
                            @ + curiosity_change]
        recorded == [e EXCEPT !.topic_engagements = DictSet(@, topic, engagement)]
    IN  UpdateActiveInterests(UpdateSalience(recorded, topic, now))

\* record_topic_encounter
RecordTopicEncounter(e, topic, duration, emotional_valence, learning_occurred, satisfaction, now) ==
    LET engagement ==
            IF ~DictHas(e.topic_engagements, topic)
            THEN [topic |-> topic,
                  first_encounter |-> now,
                  last_encounter |-> now,
                  encounter_count |-> 1,
                  total_duration |-> duration,
                  emotional_valence |-> emotional_valence,
                  curiosity_level |-> (7 * IUnit) \div 10,
                  learning_progress |->
                      IF learning_occurred THEN IUnit \div 10 ELSE 0,
                  satisfaction |-> satisfaction,
                  related_topics |-> {}]
            ELSE LET old == DictGet(e.topic_engagements, topic)
                     curiosity_change ==
                         (satisfaction - IUnit \div 2) \div 10
                         + (IF learning_occurred
                            THEN IUnit \div 10 ELSE 0 - IUnit \div 20)
                 IN  [old EXCEPT
                        !.last_encounter = now,
                        !.encounter_count = @ + 1,
                        !.total_duration = @ + duration,
                        !.emotional_valence =
                            (7 * @ + 3 * emotional_valence) \div 10,
                        !.learning_progress =
                            IF learning_occurred
                            THEN Min(IUnit, @ + IUnit \div 10) ELSE @,
                        !.satisfaction = (7 * @ + 3 * satisfaction) \div 10,
                        !.curiosity_level =
                            Max(0, Min(IUnit, @ + curiosity_change))]
        recorded == [e EXCEPT !.topic_engagements = DictSet(@, topic, engagement)]
    IN  UpdateActiveInterests(UpdateSalience(recorded, topic, now))

\* related_topics.add(other) on a tracked topic
AddRelated(engagements, topic, other) ==
    IF DictHas(engagements, topic)
    THEN DictSet(engagements, topic,
                 [DictGet(engagements, topic) EXCEPT !.related_topics = @ \cup {other}])
    ELSE engagements

\* the cluster id the loop of add_topic_relation ends with: the last cluster
\* that holds the topic, 0 - 1 for None
ClusterOf(clusters, topic) ==
    LET holding == {k \in 1..Len(clusters) : topic \in clusters[k][2]}
    IN  IF holding = {} THEN 0 - 1
        ELSE clusters[CHOOSE k \in holding : \A j \in holding : j <= k][1]

\* add_topic_relation whose merge keeps the second cluster
AddTopicRelationKeepBoth(e, topic1, topic2) ==
    LET related == AddRelated(AddRelated(e.topic_engagements, topic1, topic2),
                              topic2, topic1)
        clusters == e.topic_clusters
        cluster1 == ClusterOf(clusters, topic1)
        cluster2 == ClusterOf(clusters, topic2)
        merged ==
            IF cluster1 = 0 - 1 /\ cluster2 = 0 - 1
            THEN DictSet(clusters, Len(clusters), {topic1, topic2})
            ELSE IF cluster1 # 0 - 1 /\ cluster2 = 0 - 1
            THEN DictSet(clusters, cluster1,
                         DictGet(clusters, cluster1) \cup {topic2})
            ELSE IF cluster1 = 0 - 1 /\ cluster2 # 0 - 1
            THEN DictSet(clusters, cluster2,
                         DictGet(clusters, cluster2) \cup {topic1})
            ELSE IF cluster1 # cluster2
            THEN DictSet(clusters, cluster1,
                         DictGet(clusters, cluster1)
                             \cup DictGet(clusters, cluster2))
            ELSE clusters
    IN  [e EXCEPT !.topic_engagements = related, !.topic_clusters = merged]

\* add_topic_relation; the cluster named f"cluster_{n}" has the key n
AddTopicRelation(e, topic1, topic2) ==
    LET related == AddRelated(AddRelated(e.topic_engagements, topic1, topic2),
                              topic2, topic1)
        clusters == e.topic_clusters
        cluster1 == ClusterOf(clusters, topic1)
        cluster2 == ClusterOf(clusters, topic2)
        merged ==
            IF cluster1 = 0 - 1 /\ cluster2 = 0 - 1
            THEN DictSet(clusters, Len(clusters), {topic1, topic2})
            ELSE IF cluster1 # 0 - 1 /\ cluster2 = 0 - 1
            THEN DictSet(clusters, cluster1,
                         DictGet(clusters, cluster1) \cup {topic2})
            ELSE IF cluster1 = 0 - 1 /\ cluster2 # 0 - 1
            THEN DictSet(clusters, cluster2,
                         DictGet(clusters, cluster2) \cup {topic1})
            ELSE IF cluster1 # cluster2
            THEN DictDel(DictSet(clusters, cluster1,
                                 DictGet(clusters, cluster1)
                                     \cup DictGet(clusters, cluster2)),
                         cluster2)
            ELSE clusters
    IN  [e EXCEPT !.topic_engagements = related, !.topic_clusters = merged]

\* generate_exploration_goal (topic is None) taking the first candidate
BestCandidateFirst(e) ==
    LET engs == e.topic_engagements
        candidates == {k \in 1..Len(engs) :
                          /\ engs[k][2].curiosity_level > IUnit \div 2
                          /\ engs[k][2].learning_progress < (8 * IUnit) \div 10}
    IN  IF candidates = {} THEN "None"
        ELSE engs[CHOOSE k \in candidates : \A j \in candidates : k <= j][1]

\* max(candidates, key=...): the first candidate of the largest product
BestCandidate(e) ==
    LET engs == e.topic_engagements
        Product(k) ==
            engs[k][2].curiosity_level
                * (IF DictHas(e.salience_map, engs[k][1])
                   THEN DictGet(e.salience_map, engs[k][1]) ELSE 0)
        candidates == {k \in 1..Len(engs) :
                          /\ engs[k][2].curiosity_level > IUnit \div 2
                          /\ engs[k][2].learning_progress < (8 * IUnit) \div 10}
    IN  IF candidates = {} THEN "None"
        ELSE engs[CHOOSE k \in candidates :
                      /\ \A j \in candidates : Product(j) <= Product(k)
                      /\ \A j \in candidates : j < k => Product(j) < Product(k)][1]

\* generate_exploration_goal; topic "None" stands for None.  The id
\* f"goal_{topic}_{int(time.time())}" is the pair <<topic, now>>.
GenerateExplorationGoal(e, topic_arg, now) ==
    LET topic == IF topic_arg = "None" THEN BestCandidate(e) ELSE topic_arg
    IN  IF topic = "None" \/ ~DictHas(e.topic_engagements, topic) THEN e
        ELSE LET engagement == DictGet(e.topic_engagements, topic)
                 curiosity_driver == engagement.curiosity_level
                 utility_driver ==
                     Min(IUnit,
                         Cardinality(engagement.related_topics) * (IUnit \div 10)
                         + ((engagement.emotional_valence + IUnit) \div 2) \div 2)
                 goal == [id |-> <<topic, now>>,
                          topic |-> topic,
                          created |-> now,
                          priority |-> (curiosity_driver * 6
                                        + utility_driver * 4) \div 10,
                          curiosity_driver |-> curiosity_driver,
                          utility_driver |-> utility_driver,
                          progress |-> 0,
                          target_depth |->
                              Min(IUnit, engagement.learning_progress
                                             + (3 * IUnit) \div 10),
                          completed |-> FALSE]
             IN  [e EXCEPT !.exploration_goals = Append(@, goal)]

\* update_goal_progress without the break: every goal of that id is updated
UpdateGoalProgressAll(e, goal_id, progress, learning_occurred) ==
    LET goals == e.exploration_goals
        capped == Min(IUnit, progress)
    IN  [e EXCEPT
           !.exploration_goals =
               [k \in 1..Len(goals) |->
                   IF goals[k].id = goal_id
                   THEN [goals[k] EXCEPT
                           !.progress = capped,
                           !.completed = IF capped >= goals[k].target_depth
                                         THEN TRUE ELSE @]
                   ELSE goals[k]]]

\* update_goal_progress: the first goal of that id
UpdateGoalProgress(e, goal_id, progress, learning_occurred) ==
    LET goals == e.exploration_goals
        found == {k \in 1..Len(goals) : goals[k].id = goal_id}
    IN  IF found = {} THEN e
        ELSE LET k == CHOOSE i \in found : \A j \in found : i <= j
                 capped == Min(IUnit, progress)
                 goal == [goals[k] EXCEPT
                            !.progress = capped,
                            !.completed = IF capped >= goals[k].target_depth
                                          THEN TRUE ELSE @]
                 topic == goals[k].topic
                 engs == e.topic_engagements
             IN  [e EXCEPT
                    !.exploration_goals = [@ EXCEPT ![k] = goal],
                    !.topic_engagements =
                        IF learning_occurred /\ DictHas(engs, topic)
                        THEN DictSet(engs, topic,
                                     [DictGet(engs, topic) EXCEPT
                                        !.learning_progress =
                                            Min(IUnit, @ + IUnit \div 10)])
                        ELSE engs]

\* should_join_discussion without the checks of related and clustered topics
ShouldJoinDiscussionDirect(e, topic) ==
    \/ topic \in {e.active_interests[k] : k \in 1..Len(e.active_interests)}
    \/ (IF DictHas(e.salience_map, topic)
        THEN DictGet(e.salience_map, topic) ELSE 0) > (4 * IUnit) \div 10

\* should_join_discussion
ShouldJoinDiscussion(e, topic) ==
    LET active == {e.active_interests[k] : k \in 1..Len(e.active_interests)}
    IN  \/ topic \in active
        \/ (IF DictHas(e.salience_map, topic)
            THEN DictGet(e.salience_map, topic) ELSE 0) > (4 * IUnit) \div 10
        \/ \E active_topic \in active :
              /\ DictHas(e.topic_engagements, active_topic)
              /\ topic \in DictGet(e.topic_engagements, active_topic).related_topics
        \/ \E k \in 1..Len(e.topic_clusters) :
              /\ topic \in e.topic_clusters[k][2]
              /\ e.topic_clusters[k][2] \cap active # {}

\* decay_interests: the loop over topic_engagements, then
\* _update_active_interests
RECURSIVE DecayFrom(_, _, _)
DecayFrom(e, k, now) ==
    IF k > Len(e.topic_engagements) THEN e
    ELSE LET topic == e.topic_engagements[k][1]
             engagement == e.topic_engagements[k][2]
             days_since == now - engagement.last_encounter
             decayed == (engagement.curiosity_level * DecayFactor(days_since))
                            \div IUnit
             recovered == Min(IUnit, decayed + (IUnit \div 10) * days_since)
             e1 == [e EXCEPT !.topic_engagements[k][2].curiosity_level = recovered]
         IN  DecayFrom(UpdateSalience(e1, topic, now), k + 1, now)

DecayInterests(e, now) == UpdateActiveInterests(DecayFrom(e, 1, now))

\* list(a_set): the elements in some order
RECURSIVE ListOf(_)
ListOf(S) ==
    IF S = {} THEN <<>>
    ELSE LET x == CHOOSE y \in S : TRUE IN <<x>> \o ListOf(S \ {x})

\* set(a_list)
SetOf(s) == {s[k] : k \in 1..Len(s)}

\* save_to_file: the JSON document
InterestSaveToFile(e) ==
    [topic_engagements |->
         [k \in 1..Len(e.topic_engagements) |->
             <<e.topic_engagements[k][1],
               [e.topic_engagements[k][2] EXCEPT
                   !.related_topics = ListOf(@)]>>],
     exploration_goals |-> e.exploration_goals,
     salience_map |-> e.salience_map,
     topic_clusters |->
         [k \in 1..Len(e.topic_clusters) |->
             <<e.topic_clusters[k][1], ListOf(e.topic_clusters[k][2])>>]]

\* load_from_file without the call of _update_active_interests
InterestLoadFromFileStale(data) ==
    [NewInterest EXCEPT
        !.topic_engagements =
            [k \in 1..Len(data.topic_engagements) |->
                <<data.topic_engagements[k][1],
                  [data.topic_engagements[k][2] EXCEPT
                      !.related_topics = SetOf(@)]>>],
        !.exploration_goals = data.exploration_goals,
        !.salience_map = data.salience_map,
        !.topic_clusters =
            [k \in 1..Len(data.topic_clusters) |->
                <<data.topic_clusters[k][1], SetOf(data.topic_clusters[k][2])>>]]

\* load_from_file
InterestLoadFromFile(data) ==
    UpdateActiveInterests(
        [NewInterest EXCEPT
            !.topic_engagements =
                [k \in 1..Len(data.topic_engagements) |->
                    <<data.topic_engagements[k][1],
                      [data.topic_engagements[k][2] EXCEPT
                          !.related_topics = SetOf(@)]>>],
            !.exploration_goals = data.exploration_goals,
            !.salience_map = data.salience_map,
            !.topic_clusters =
                [k \in 1..Len(data.topic_clusters) |->
                    <<data.topic_clusters[k][1],
                      SetOf(data.topic_clusters[k][2])>>]])

\* ---- the calls made on the EchoInterest object
Topics == {"ai", "music", "zen"}
ClusterTopics == Topics \cup {"go"}
ManyTopics == ClusterTopics \cup {"tea", "chess"}

\* (duration, emotional_valence, learning_occurred, satisfaction)
EncounterArgs ==
    {[duration |-> 10, emotional_valence |-> 0,
      learning_occurred |-> TRUE, satisfaction |-> IUnit \div 2],
     [duration |-> 10, emotional_valence |-> 0 - IUnit,
      learning_occurred |-> FALSE, satisfaction |-> 0]}

\* encounters at the ends of the argument ranges
EncounterExtremes ==
    {[duration |-> 10, emotional_valence |-> IUnit,
      learning_occurred |-> TRUE, satisfaction |-> IUnit],
     [duration |-> 10, emotional_valence |-> 0 - IUnit,
      learning_occurred |-> FALSE, satisfaction |-> 0]}

RangeTopics == {"ai", "zen"}

\* progress arguments below and above every target_depth
ProgressArgs == {IUnit \div 10, (12 * IUnit) \div 10}

GoalIds(e) == {e.exploration_goals[k].id : k \in 1..Len(e.exploration_goals)}

InterestOp(op, topic, other, result) == [op |-> op, topic |-> topic, other |-> other, result |-> result]

InitInterest ==
    /\ interest = NewInterest
    /\ interest_now = 0
    /\ interest_op = InterestOp("init", "None", "None", FALSE)
    /\ interest_calls = 0

OthersUnchanged == UNCHANGED <<wr_vars, wr_hist, orch_vars, wisdom_vars>>

InterestCounted(bound) ==
    /\ interest_calls < bound
    /\ interest_calls' = interest_calls + 1

TopicEncounterCall(topic, arg) ==
    /\ interest' = RecordTopicEncounter(interest, topic, arg.duration, arg.emotional_valence, arg.learning_occurred, arg.satisfaction, interest_now)
    /\ interest_op' = InterestOp("record_topic_encounter", topic, "None", FALSE)
    /\ UNCHANGED interest_now
    /\ OthersUnchanged

\* add_topic_relation takes its merge branch: the result recorded for the call
Bridges(e, topic1, topic2) ==
    /\ ClusterOf(e.topic_clusters, topic1) # 0 - 1
    /\ ClusterOf(e.topic_clusters, topic2) # 0 - 1
    /\ ClusterOf(e.topic_clusters, topic1) # ClusterOf(e.topic_clusters, topic2)

TopicRelationCall(topic1, topic2) ==
    /\ interest' = AddTopicRelation(interest, topic1, topic2)
    /\ interest_op' = InterestOp("add_topic_relation", topic1, topic2, Bridges(interest, topic1, topic2))
    /\ UNCHANGED interest_now
    /\ OthersUnchanged

\* the result says whether a goal was returned
ExplorationGoalCall(topic) ==
    /\ interest' = GenerateExplorationGoal(interest, topic, interest_now)
    /\ interest_op' = InterestOp("generate_exploration_goal", topic, "None", interest' # interest)
    /\ UNCHANGED interest_now
    /\ OthersUnchanged

GoalProgressCall(topic, created, progress, learning_occurred) ==
    /\ interest' = UpdateGoalProgress(interest, <<topic, created>>, progress, learning_occurred)
    /\ interest_op' = InterestOp("update_goal_progress", topic, "None", learning_occurred)
    /\ UNCHANGED interest_now
    /\ OthersUnchanged

DecayCall ==
    /\ interest' = DecayInterests(interest, interest_now)
    /\ interest_op' = InterestOp("decay_interests", "None", "None", FALSE)
    /\ UNCHANGED interest_now
    /\ OthersUnchanged

\* a day goes by between two calls
DayPasses(bound) ==
    /\ interest_now < bound
    /\ interest_now' = interest_now + 1
    /\ interest_op' = InterestOp("day", "None", "None", FALSE)
    /\ UNCHANGED <<interest, interest_calls>>
    /\ OthersUnchanged

\* should_join_discussion reads with dict.get and .values(), which insert no key
JoinDiscussionCall(topic) ==
    /\ interest' = interest
    /\ interest_op' = InterestOp("should_join_discussion", topic, "None", ShouldJoinDiscussion(interest, topic))
    /\ UNCHANGED interest_now
    /\ OthersUnchanged

\* save_to_file, then load_from_file; the caller goes on with the loaded object
InterestSaveLoad ==
    /\ interest' = InterestLoadFromFile(InterestSaveToFile(interest))
    /\ interest_op' = InterestOp("load_from_file", "None", "None", FALSE)
    /\ UNCHANGED interest_now
    /\ OthersUnchanged

-----------------------------------------------------------------------------
\* Storing a controller record back into the variables
StoreController(c) ==
    /\ state' = c.state
    /\ time_in_state' = c.time_in_state
    /\ cognitive_fatigue' = c.cognitive_fatigue
    /\ consolidation_pressure' = c.consolidation_pressure
    /\ activity_duration' = c.activity_duration
    /\ rest_duration' = c.rest_duration
    /\ total_cycles' = c.total_cycles
    /\ optimal_activity_duration' = c.optimal_activity_duration
    /\ optimal_rest_duration' = c.optimal_rest_duration
    /\ recent_processing_quality' = c.recent_processing_quality

RecordCall(op, c) ==
    /\ last_op' = op
    /\ op_transitions' = c.log
    /\ last_result' = FALSE

NoCall ==
    /\ last_op' = "tick"
    /\ op_transitions' = <<>>
    /\ last_result' = FALSE

\* the variables hold controller c, on which no call is in progress
HoldsController(c) ==
    /\ state = c.state
    /\ time_in_state = c.time_in_state
    /\ cognitive_fatigue = c.cognitive_fatigue
    /\ consolidation_pressure = c.consolidation_pressure
    /\ activity_duration = c.activity_duration
    /\ rest_duration = c.rest_duration
    /\ total_cycles = c.total_cycles
    /\ optimal_activity_duration = c.optimal_activity_duration
    /\ optimal_rest_duration = c.optimal_rest_duration
    /\ recent_processing_quality = c.recent_processing_quality
    /\ last_op = "init"
    /\ op_transitions = <<>>
    /\ last_result = FALSE

InitController == HoldsController(NewController)

\* A controller that was used before the orchestrator got it: one update
\* that stored new memories, then force_rest()
RestingController == ForceRestOp(Update(NewController, 80, 80, 70, FALSE))

\* Other controllers a caller can hand over: one that force_rest() and an
\* update have brought to WAKING; one that is AWAKE and close to the drowsy
\* threshold (an update with perfect scores 50 minutes after construction);
\* and RestingController more than two minutes after its force_rest()
WakingController == Update(ForceRestOp(NewController), 80, 80, 0, FALSE)

TiredController ==
    Update([NewController EXCEPT !.time_in_state = 3000], 100, 100, 0, FALSE)

LongRestingController == [RestingController EXCEPT !.time_in_state = 121]

HandedOver == {NewController, RestingController, WakingController,
               TiredController, LongRestingController}

\* ---- actions of a caller that drives the controller directly
DoUpdate(processing_quality, coherence_level, new_memories, consolidation_occurred) ==
    LET c == Update(Controller, processing_quality, coherence_level,
                    new_memories, consolidation_occurred)
    IN  /\ c.total_cycles <= MaxCycles
        /\ StoreController(c)
        /\ RecordCall("update", c)

UpdateCall(processing_quality, coherence_level, new_memories, consolidation_occurred) ==
    /\ Len(recent_processing_quality) < MaxUpdates
    /\ DoUpdate(processing_quality, coherence_level, new_memories,
                consolidation_occurred)
    /\ UNCHANGED <<orch_vars, lib_vars>>

ForceRestCall ==
    LET c == ForceRestOp(Controller)
    IN  /\ StoreController(c)
        /\ RecordCall("force_rest", c)
        /\ UNCHANGED <<orch_vars, lib_vars>>

ForceWakeCall ==
    LET c == ForceWakeOp(Controller)
    IN  /\ StoreController(c)
        /\ RecordCall("force_wake", c)
        /\ UNCHANGED <<orch_vars, lib_vars>>

\* should_rest_now / should_wake_now called on the controller: the fields
\* after the call and the value returned
ShouldRestNowCall ==
    /\ StoreController(Controller)
    /\ last_op' = "should_rest_now"
    /\ op_transitions' = <<>>
    /\ last_result' = ShouldRestNow(Controller)
    /\ UNCHANGED <<orch_vars, lib_vars>>

ShouldWakeNowCall ==
    /\ StoreController(Controller)
    /\ last_op' = "should_wake_now"
    /\ op_transitions' = <<>>
    /\ last_result' = ShouldWakeNow(Controller)
    /\ UNCHANGED <<orch_vars, lib_vars>>

\* time passes between calls, until time_in_state = t
Tick(t) ==
    /\ t > time_in_state
    /\ time_in_state' = t
    /\ UNCHANGED <<state, cognitive_fatigue, consolidation_pressure,
                   activity_duration, rest_duration, total_cycles,
                   optimal_activity_duration, optimal_rest_duration,
                   recent_processing_quality>>
    /\ NoCall
    /\ UNCHANGED <<orch_vars, lib_vars>>

\* ---- a caller that makes BurstCalls default updates within BurstWindow seconds
BurstUpdate ==
    /\ Len(recent_processing_quality) < BurstCalls
    /\ DoUpdate(80, 80, 0, FALSE)
    /\ UNCHANGED <<orch_vars, lib_vars>>

BurstTick(d) ==
    /\ time_in_state + d <= BurstWindow
    /\ time_in_state' = time_in_state + d
    /\ UNCHANGED <<state, cognitive_fatigue, consolidation_pressure,
                   activity_duration, rest_duration, total_cycles,
                   optimal_activity_duration, optimal_rest_duration,
                   recent_processing_quality>>
    /\ NoCall
    /\ UNCHANGED <<orch_vars, lib_vars>>

-----------------------------------------------------------------------------
\* The orchestrator's coroutines.  A step runs one coroutine from the point
\* where it is suspended to its next await (cooperative scheduling).
StartCalls == 1..MaxStartCalls
StopCalls == 1..MaxStopCalls

\* What the collaborators do in one step: whether the wisdom score call of
\* _check_wake_rest_state raises, and the phase whose collaborator call raises
Envs(o) ==
    {[wisdom_raises |-> w, failing |-> f] :
        w \in (IF {"wisdom_metrics", "wake_rest_controller"} \subseteq o.present
               THEN BOOLEAN ELSE {FALSE}),
        f \in {"none"} \cup FailablePhases(o)}

\* long runs are explored for the configurations in LongRunConfigs only
CycleBound(config) ==
    IF config \in LongRunConfigs THEN MaxCycleCount ELSE MaxShortCycles

StoreOrchestrator(o) ==
    /\ UNCHANGED <<present, lib_vars>>
    /\ running' = o.running
    /\ cycle_count' = o.cycle_count
    /\ context_history' = o.context_history
    /\ echodream_running' = o.echodream_running
    /\ completed_cycles' = o.completed_cycles
    /\ error_count' = o.error_count
    /\ StoreController(o.controller)
    /\ IF o.updates > 0 THEN RecordCall("update", o.controller) ELSE NoCall
    \* the bounds cap what a running orchestrator does; a loop that was told
    \* to stop is followed to its exit
    /\ o.running =>
          /\ o.controller.total_cycles <= MaxCycles
          /\ o.cycle_count <= CycleBound(o.present)
          /\ o.error_count <= MaxErrors

\* a start() coroutine reaches its next await
StoreStart(i, kind, r) ==
    /\ StoreOrchestrator(r.o)
    /\ start_pc' = [start_pc EXCEPT ![i] = r.pc]
    /\ sleep_for' = [sleep_for EXCEPT ![i] = r.sleep_for]
    /\ trace' = r.trace
    /\ last_event' = [kind |-> kind, task |-> i, loop |-> r.loop]
    /\ UNCHANGED stop_pc

StoreStop(j, kind, r) ==
    /\ StoreOrchestrator(r.o)
    /\ stop_pc' = [stop_pc EXCEPT ![j] = r.pc]
    /\ last_event' = [kind |-> kind, task |-> j, loop |-> "none"]
    /\ trace' = <<>>
    /\ UNCHANGED <<start_pc, sleep_for>>

\* (the calls are interchangeable: they are made in the order of their numbers)
StartCall(i) ==
    /\ start_pc[i] = "idle"
    /\ \A k \in StartCalls : k < i => start_pc[k] # "idle"
    /\ \E env \in Envs(Orchestrator) :
          StoreStart(i, "start", StartOp(Orchestrator, env))

\* await asyncio.to_thread(self.echobeats.Start) returns (or raises: logged)
StartEchobeatsDone(i) ==
    /\ start_pc[i] = "start_echobeats"
    /\ \E env \in Envs(Orchestrator) :
          StoreStart(i, "start_echobeats_done",
              IF "echodream" \in present
              THEN [o |-> Orchestrator, pc |-> "start_echodream", sleep_for |-> 0,
                    trace |-> <<>>, loop |-> "none"]
              ELSE LoopIteration(Orchestrator, env))

\* await asyncio.to_thread(self.echodream.Start) returns (or raises: logged)
StartEchodreamDone(i) ==
    /\ start_pc[i] = "start_echodream"
    /\ \E env \in Envs(Orchestrator), raised \in BOOLEAN :
          StoreStart(i, "start_echodream_done",
              LoopIteration(
                  [Orchestrator EXCEPT !.echodream_running =
                       EchodreamStart(echodream_running, raised)], env))

\* the Start call awaited in _check_wake_rest_state returns or raises
CheckStartDone(i) ==
    /\ start_pc[i] = "check_start"
    /\ \E env \in Envs(Orchestrator), raised \in BOOLEAN :
          StoreStart(i, "check_start_done",
              AfterCheckAwait(
                  [Orchestrator EXCEPT !.echodream_running =
                       EchodreamStart(echodream_running, raised)],
                  env, <<"update">>, raised))

\* the Stop call awaited in _check_wake_rest_state returns or raises
CheckStopDone(i) ==
    /\ start_pc[i] = "check_stop"
    /\ \E env \in Envs(Orchestrator), raised \in BOOLEAN :
          StoreStart(i, "check_stop_done",
              AfterCheckAwait(
                  [Orchestrator EXCEPT !.echodream_running =
                       EchodreamStop(echodream_running, raised)],
                  env, <<"update">>, raised))

\* asyncio.sleep returns: sleep_for seconds have passed; next loop iteration.
\* (The clock is advanced by the sleeper's own delay; with two loops alive a
\* sleeper may so wake later than its delay, which asyncio.sleep allows.)
SleepDone(i) ==
    /\ start_pc[i] = "sleep"
    /\ running /\ "wake_rest_controller" \in present
          => time_in_state + sleep_for[i] <= OrchMaxTime
    /\ \E env \in Envs(Orchestrator) :
          StoreStart(i, "sleep_done",
              LoopIteration(
                  [Orchestrator EXCEPT !.controller.time_in_state =
                       IF "wake_rest_controller" \in present
                       THEN time_in_state + sleep_for[i] ELSE time_in_state],
                  env))

StopCall(j) ==
    /\ stop_pc[j] = "idle"
    /\ \A k \in StopCalls : k < j => stop_pc[k] # "idle"
    /\ StoreStop(j, "stop", StopOp(Orchestrator))

\* await asyncio.to_thread(self.echobeats.Stop) returns (or raises: logged)
StopEchobeatsDone(j) ==
    /\ stop_pc[j] = "stop_echobeats"
    /\ StoreStop(j, "stop_echobeats_done",
                 [o |-> Orchestrator,
                  pc |-> IF "echodream" \in present
                         THEN "stop_echodream" ELSE "returned"])

\* await asyncio.to_thread(self.echodream.Stop) returns (or raises: logged)
StopEchodreamDone(j) ==
    /\ stop_pc[j] = "stop_echodream"
    /\ \E raised \in BOOLEAN :
          StoreStop(j, "stop_echodream_done",
                    [o |-> [Orchestrator EXCEPT !.echodream_running =
                                EchodreamStop(echodream_running, raised)],
                     pc |-> "returned"])

\* UnifiedOrchestrator.__init__ with the collaborators in `config`
InitOrchestrator(config) ==
    /\ present = config
    /\ running = FALSE
    /\ cycle_count = 0
    /\ context_history = <<>>
    /\ echodream_running = FALSE
    /\ start_pc = [i \in StartCalls |-> "idle"]
    /\ sleep_for = [i \in StartCalls |-> 0]
    /\ trace = <<>>
    /\ stop_pc = [j \in StopCalls |-> "idle"]
    /\ completed_cycles = 0
    /\ error_count = 0
    /\ last_event = [kind |-> "init", task |-> 0, loop |-> "none"]

-----------------------------------------------------------------------------
\* the objects no call is made on stay as constructed
InitLibraries ==
    /\ InitWisdom
    /\ InitInterest

Init ==
    /\ InitController
    /\ InitOrchestrator({"wake_rest_controller"})
    /\ InitLibraries

Next ==
    \/ \E q \in Quality, c \in Coherence, m \in Memories, o \in BOOLEAN :
          UpdateCall(q, c, m, o)
    \/ ForceRestCall
    \/ ForceWakeCall
    \/ \E t \in TimeGrid : Tick(t)

\* The controller driven directly by a caller
Spec == Init /\ [][Next]_vars

NextQueries ==
    \/ Next
    \/ ShouldRestNowCall
    \/ ShouldWakeNowCall

\* The controller driven directly by a caller that also asks should_rest_now
\* and should_wake_now
SpecQueries == Init /\ [][NextQueries]_vars

NextBurst ==
    \/ BurstUpdate
    \/ \E d \in BurstSteps : BurstTick(d)

\* A fresh controller given back-to-back default updates
SpecBurst == Init /\ [][NextBurst]_vars

InitOrch ==
    \E config \in Configs :
        /\ InitOrchestrator(config)
        /\ \/ InitController
           \/ /\ "wake_rest_controller" \in config
              /\ HoldsController(RestingController)
        /\ InitLibraries

NextOrch ==
    \/ \E i \in StartCalls : StartCall(i)
    \/ \E i \in StartCalls : StartEchobeatsDone(i)
    \/ \E i \in StartCalls : StartEchodreamDone(i)
    \/ \E i \in StartCalls : CheckStartDone(i)
    \/ \E i \in StartCalls : CheckStopDone(i)
    \/ \E i \in StartCalls : SleepDone(i)
    \/ \E j \in StopCalls : StopCall(j)
    \/ \E j \in StopCalls : StopEchobeatsDone(j)
    \/ \E j \in StopCalls : StopEchodreamDone(j)

\* The orchestrator with start() and stop() called from concurrent tasks
SpecOrch == InitOrch /\ [][NextOrch]_vars

\* a start() call that is suspended at an await
LoopAlive(i) == start_pc[i] \notin {"idle", "ignored", "returned"}

\* the event loop resumes start() call i
LoopResumed(i) ==
    \/ StartEchobeatsDone(i)
    \/ StartEchodreamDone(i)
    \/ CheckStartDone(i)
    \/ CheckStopDone(i)
    \/ SleepDone(i)

\* The event loop resumes a coroutine whose asyncio.sleep has ended or whose
\* asyncio.to_thread call has returned (the collaborators' Start and Stop
\* return or raise).  The fairness is stated for the loops that were told to
\* stop; callers are free to call start() and stop() or not.
\* A loop suspended outside a cycle:
ExitFairness ==
    \A i \in StartCalls :
        WF_vars(/\ ~running
                /\ start_pc[i] \in {"sleep", "start_echobeats", "start_echodream"}
                /\ LoopResumed(i))

\* A loop suspended inside _check_wake_rest_state: weak fairness of its
\* resumption, with the enabling condition written out (the step is enabled
\* whenever the loop is at that await and running is false)
InFlightFairness ==
    \A i \in StartCalls :
        \/ []<>~(~running /\ start_pc[i] \in {"check_start", "check_stop"})
        \/ []<><<LoopResumed(i)>>_vars

LoopFairness == ExitFairness /\ InFlightFairness

\* orchestrators whose loop can be told to stop in the middle of a cycle
\* (awaiting the consolidation subsystem), and the bare orchestrator
InitCancel ==
    /\ \E config \in HandoverConfigs \cup {{}} : InitOrchestrator(config)
    /\ \/ InitController
       \/ /\ "wake_rest_controller" \in present
          /\ HoldsController(RestingController)
    /\ InitLibraries

\* start() and stop() called from concurrent tasks on a fair event loop
SpecCancel == InitCancel /\ [][NextOrch]_vars /\ LoopFairness

\* every choice of collaborators, under one start() and one stop() call
InitSubsets ==
    /\ \E config \in SUBSET Subsystems : InitOrchestrator(config)
    /\ \/ InitController
       \/ /\ "wake_rest_controller" \in present
          /\ HoldsController(RestingController)
    /\ InitLibraries

NextSubsets ==
    \/ StartCall(1)
    \/ LoopResumed(1)
    \/ StopCall(1)
    \/ StopEchobeatsDone(1)
    \/ StopEchodreamDone(1)

SpecSubsets == InitSubsets /\ [][NextSubsets]_vars

InitHandover ==
    /\ \E config \in HandoverConfigs : InitOrchestrator(config)
    /\ \E c \in HandedOver : HoldsController(c)
    /\ InitLibraries

\* The orchestrator given a controller that has been in use
SpecHandover == InitHandover /\ [][NextOrch]_vars

NextWisdom ==
    \/ \E insight \in InsightArgs : AddInsightCall(insight)
    \/ \E update \in UpdateArgs : AddBeliefUpdateCall(update)

\* A WisdomMetrics object under add_insight and add_belief_update
SpecWisdom == Init /\ [][NextWisdom]_vars

NextWisdomFile ==
    \/ \E insight \in InsightArgs :
           WisdomCalls < MaxSavedCalls /\ AddInsightCall(insight)
    \/ \E update \in UpdateArgs :
           WisdomCalls < MaxSavedCalls /\ AddBeliefUpdateCall(update)
    \/ WisdomSaveLoad
    \/ WisdomScoresCall

\* A WisdomMetrics object that is saved and loaded once among its calls
SpecWisdomFile == Init /\ [][NextWisdomFile]_vars

NextInterest ==
    \/ \E topic \in Topics, arg \in EncounterArgs :
          InterestCounted(MaxInterestCalls) /\ TopicEncounterCall(topic, arg)
    \/ \E topic1, topic2 \in Topics :
          InterestCounted(MaxInterestCalls) /\ TopicRelationCall(topic1, topic2)
    \/ \E topic \in Topics \cup {"None"} :
          InterestCounted(MaxInterestCalls) /\ ExplorationGoalCall(topic)
    \/ \E id \in GoalIds(interest) \cup {<<"ai", MaxDays>>}, progress \in ProgressArgs, learning_occurred \in BOOLEAN :
          InterestCounted(MaxInterestCalls) /\ GoalProgressCall(id[1], id[2], progress, learning_occurred)
    \/ InterestCounted(MaxInterestCalls) /\ DecayCall
    \/ DayPasses(MaxInterestDays)
    \/ \E topic \in Topics :
          InterestCounted(MaxInterestCalls) /\ JoinDiscussionCall(topic)
    \/ InterestCounted(MaxInterestCalls) /\ InterestSaveLoad

\* An EchoInterest object under all of its calls
SpecInterest == Init /\ [][NextInterest]_vars

NextClusters ==
    \E topic1, topic2 \in ClusterTopics :
        TopicRelationCall(topic1, topic2) /\ UNCHANGED interest_calls

\* An EchoInterest object under add_topic_relation alone
SpecClusters == Init /\ [][NextClusters]_vars

NextRanges ==
    \/ \E topic \in RangeTopics, arg \in EncounterExtremes :
          InterestCounted(MaxRangeCalls) /\ TopicEncounterCall(topic, arg)
    \/ InterestCounted(MaxRangeCalls) /\ ExplorationGoalCall("None")
    \/ \E id \in GoalIds(interest), progress \in ProgressArgs, learning_occurred \in BOOLEAN :
          InterestCounted(MaxRangeCalls) /\ GoalProgressCall(id[1], id[2], progress, learning_occurred)
    \/ InterestCounted(MaxRangeCalls) /\ DecayCall
    \/ DayPasses(MaxInterestDays)

\* "ai" met n times in a row with the same arguments
RECURSIVE MetTimes(_, _)
MetTimes(n, arg) ==
    IF n = 0 THEN NewInterest
    ELSE RecordTopicEncounter(MetTimes(n - 1, arg), "ai", arg.duration, arg.emotional_valence, arg.learning_occurred, arg.satisfaction, 0)

\* a fresh tracker, or one that met "ai" so often at one end of the argument
\* ranges that curiosity_level has reached the end of its range
InitRanges ==
    /\ InitController
    /\ InitOrchestrator({"wake_rest_controller"})
    /\ InitWisdom
    /\ \/ interest = NewInterest /\ interest_op = InterestOp("init", "None", "None", FALSE)
       \/ /\ \E arg \in EncounterExtremes :
                interest = MetTimes(IF arg.learning_occurred THEN KeenEncounters ELSE WornEncounters, arg)
          /\ interest_op = InterestOp("record_topic_encounter", "ai", "None", FALSE)
    /\ interest_now = 0
    /\ interest_calls = 0

\* An EchoInterest object under record_topic_encounter, decay_interests and
\* update_goal_progress, with encounters at the ends of the argument ranges
SpecRanges == InitRanges /\ [][NextRanges]_vars

\* four topics met once each
BusyInterest ==
    LET Met(e, topic) == RecordTopicEncounter(e, topic, 10, 0, TRUE, IUnit \div 2, 0)
    IN  Met(Met(Met(Met(NewInterest, "ai"), "music"), "zen"), "go")

InitActive ==
    /\ InitController
    /\ InitOrchestrator({"wake_rest_controller"})
    /\ InitWisdom
    /\ interest = BusyInterest
    /\ interest_now = 0
    /\ interest_op = InterestOp("record_topic_encounter", "go", "None", FALSE)
    /\ interest_calls = 0

NextActive ==
    \/ \E topic \in ManyTopics, arg \in EncounterArgs :
          InterestCounted(MaxActiveCalls) /\ TopicEncounterCall(topic, arg)
    \/ InterestCounted(MaxActiveCalls) /\ DecayCall
    \/ DayPasses(MaxDays)

\* An EchoInterest object with more topics than active_interests can hold
SpecActive == InitActive /\ [][NextActive]_vars


-----------------------------------------------------------------------------
\* C1: after any sequence of update, force_rest and force_wake calls (inputs
\* in range, time never running backwards) cognitive_fatigue and
\* consolidation_pressure are both in [0,1].
C1_FatiguePressureInRange ==
    /\ cognitive_fatigue >= 0
    /\ cognitive_fatigue <= FScale
    /\ consolidation_pressure >= 0
    /\ consolidation_pressure <= PScale

\* both scalars saturated at 1.0 by an update
C1_Witness ==
    /\ last_op = "update"
    /\ cognitive_fatigue = FScale
    /\ consolidation_pressure = PScale

\* C2: one update call changes the state at most once, and only along
\* AWAKE->DROWSY, DROWSY->RESTING, DROWSY->AWAKE, RESTING->DEEP_REST,
\* RESTING->WAKING, DEEP_REST->WAKING, WAKING->AWAKE.
UpdateTransitionTable ==
    {<<AWAKE, DROWSY>>, <<DROWSY, RESTING>>, <<DROWSY, AWAKE>>,
     <<RESTING, DEEP_REST>>, <<RESTING, WAKING>>, <<DEEP_REST, WAKING>>,
     <<WAKING, AWAKE>>}

C2_UpdateStep ==
    (last_op' = "update") =>
        \/ state' = state /\ op_transitions' = <<>>
        \/ /\ op_transitions' = << <<state, state'>> >>
           /\ <<state, state'>> \in UpdateTransitionTable

C2_UpdateTransitionsAllowed == [][C2_UpdateStep]_vars

C2_Witness ==
    /\ last_op = "update"
    /\ op_transitions = << <<DEEP_REST, WAKING>> >>
    /\ state = WAKING

\* C3: the transition conditions are tried in table order on the values the
\* same update call left: from DROWSY, fatigue >= 0.75 or pressure >= 0.7
\* gives RESTING even when fatigue < 0.48; from RESTING, time_in_state > 120s
\* gives DEEP_REST even when the wake condition (fatigue < 0.2 and
\* pressure < 0.3) holds too.
C3_PriorityStep ==
    (last_op' = "update") =>
        /\ (state = DROWSY
            /\ (cognitive_fatigue' >= rest_threshold
                \/ consolidation_pressure' >= consolidation_threshold))
           => state' = RESTING
        /\ (state = RESTING /\ time_in_state > 120) => state' = DEEP_REST

C3_PriorityOrder == [][C3_PriorityStep]_vars

\* RESTING for more than 120s with the wake condition true: DEEP_REST wins
C3_Witness ==
    /\ last_op = "update"
    /\ op_transitions = << <<RESTING, DEEP_REST>> >>
    /\ cognitive_fatigue < wake_threshold
    /\ 10 * consolidation_pressure < 3 * PScale

\* C4: with fatigue >= 0.6 (or pressure >= 0.7) in AWAKE the next update
\* returns DROWSY; with fatigue >= 0.75 (or pressure >= 0.7) in DROWSY the
\* next update returns RESTING, whatever the in-range inputs.  Stated for the
\* values before the call and for the values the call itself accumulates.
C4_ThresholdStep ==
    (last_op' = "update") =>
        /\ (state = AWAKE
            /\ (cognitive_fatigue >= drowsy_threshold
                \/ consolidation_pressure >= consolidation_threshold
                \/ cognitive_fatigue' >= drowsy_threshold
                \/ consolidation_pressure' >= consolidation_threshold))
           => state' = DROWSY
        /\ (state = DROWSY
            /\ (cognitive_fatigue >= rest_threshold
                \/ consolidation_pressure >= consolidation_threshold
                \/ cognitive_fatigue' >= rest_threshold
                \/ consolidation_pressure' >= consolidation_threshold))
           => state' = RESTING

C4_ThresholdsDriveRest == [][C4_ThresholdStep]_vars

\* DROWSY entered with fatigue already >= 0.75 and updated at once
\* (activity_duration = 0: the call added no fatigue): RESTING
C4_Witness ==
    /\ last_op = "update"
    /\ op_transitions = << <<DROWSY, RESTING>> >>
    /\ activity_duration = 0
    /\ cognitive_fatigue >= rest_threshold
    /\ consolidation_pressure < consolidation_threshold

\* C5: from a fresh controller, 10 consecutive update(0.8, 0.8, 0) calls made
\* within one minute of entering AWAKE leave the state AWAKE after each call.
C5_BurstStaysAwake ==
    /\ state = AWAKE
    /\ op_transitions = <<>>

C5_Witness ==
    /\ last_op = "update"
    /\ Len(recent_processing_quality) = BurstCalls
    /\ time_in_state = BurstWindow
    /\ cognitive_fatigue > 0
    /\ state = AWAKE

\* C6: from every reachable controller state force_wake() leaves
\* state = AWAKE, cognitive_fatigue = 0.0 and consolidation_pressure = 0.0.
C6_ForceWakeResets ==
    (last_op = "force_wake") =>
        /\ state = AWAKE
        /\ cognitive_fatigue = 0
        /\ consolidation_pressure = 0

\* force_wake out of DROWSY, where fatigue >= 0.6 or pressure >= 0.7
C6_Witness ==
    /\ last_op = "force_wake"
    /\ op_transitions = << <<DROWSY, AWAKE>> >>
    /\ state = AWAKE

-----------------------------------------------------------------------------
\* C7: cycle_count increases by exactly 1 for each cycle that completes all
\* seven phases and by 0 for a cycle that an error aborts (and by nothing
\* else); after every cycle len(context_history) = min(number of completed
\* cycles, 100), and context_history holds the most recent contexts in
\* completion order: a completed cycle appends its context (numbered with the
\* cycle_count it started under) and evicts the oldest one beyond 100.
C7_CycleStep ==
    LET n == Len(context_history)
        n2 == Len(context_history')
    IN  IF last_event'.loop = "cycle_done"
        THEN /\ cycle_count' = cycle_count + 1
             /\ completed_cycles' = completed_cycles + 1
             /\ n2 = Min(n + 1, HistoryCap)
             /\ context_history'[n2].cycle = cycle_count
             /\ \A k \in 1..(n2 - 1) :
                    context_history'[k] = context_history[k + (n + 1 - n2)]
        ELSE /\ cycle_count' = cycle_count
             /\ completed_cycles' = completed_cycles
             /\ context_history' = context_history

C7_CountAndHistory ==
    /\ cycle_count = completed_cycles
    /\ Len(context_history) = Min(completed_cycles, HistoryCap)
    /\ \A k \in 1..Len(context_history) :
           context_history[k].cycle
               = completed_cycles - Len(context_history) + k - 1

C7_CycleCountAndHistory == []C7_CountAndHistory /\ [][C7_CycleStep]_vars

\* more than 100 cycles completed and one was aborted: the oldest context
\* (cycle 0) is gone
C7_Witness ==
    /\ completed_cycles = HistoryCap + 1
    /\ error_count > 0
    /\ last_event.loop = "cycle_done"
    /\ Len(context_history) = HistoryCap
    /\ context_history[1].cycle = 1
    /\ context_history[HistoryCap].cycle = HistoryCap

\* C8: start() while running is true and stop() while running is false change
\* no orchestrator state (running, cycle_count, context_history), make no
\* subsystem Start/Stop call (the call is at no await of a subsystem thread and
\* the subsystem's flag is as before) and return normally; start() from
\* not-running sets running to true, stop() from running sets it to false.
C8_StartStopStep ==
    LET i == last_event'.task
    IN  /\ (last_event'.kind = "start" /\ running) =>
              /\ UNCHANGED <<running, cycle_count, context_history,
                             echodream_running, wr_vars>>
              /\ start_pc'[i] = "ignored"
        /\ (last_event'.kind = "start" /\ ~running) =>
              /\ running'
              /\ start_pc'[i] # "ignored"
        /\ (last_event'.kind = "stop" /\ ~running) =>
              /\ UNCHANGED <<running, cycle_count, context_history,
                             echodream_running, wr_vars>>
              /\ stop_pc'[i] = "ignored"
        /\ (last_event'.kind = "stop" /\ running) =>
              /\ ~running'
              /\ stop_pc'[i] # "ignored"

C8_StartStopIdempotent == [][C8_StartStopStep]_vars

\* a start() was ignored while the loop of another start() was running, and
\* a stop() was ignored too
C8_Witness ==
    /\ \E i \in StartCalls : start_pc[i] = "ignored"
    /\ \E j \in StopCalls : stop_pc[j] = "ignored"
    /\ \E j \in StopCalls : stop_pc[j] = "returned"
    /\ cycle_count > 0

\* C9 (as stated): every loop iteration calls update exactly once before the
\* phases and then runs the seven phases once each in the fixed order; every
\* stored context has phase INTEGRATION and integration_complete = true.
C9_EveryIterationStep ==
    last_event'.loop \in {"cycle_done", "cycle_error"} =>
        trace' = <<"update", "perception", "cognition", "emotion", "social",
                   "learning", "consolidation", "integration">>

C9_StoredContextsIntegrated ==
    \A k \in 1..Len(context_history) :
        /\ context_history[k].phase = "integration"
        /\ context_history[k].integration_complete

C9_EveryIteration ==
    []C9_StoredContextsIntegrated /\ [][C9_EveryIterationStep]_vars

\* C9 (amended): every loop iteration that no error aborts calls update
\* exactly once before the phases if a wake/rest controller is configured
\* (and not at all otherwise), then runs the seven phases once each in the
\* fixed order; an iteration that an error aborts has called update at most
\* once, before any phase, and has run the phases in that order up to the
\* failing one; every stored context has phase INTEGRATION and
\* integration_complete = true.
C9_CompletedIterationStep ==
    LET phases == <<"perception", "cognition", "emotion", "social",
                    "learning", "consolidation", "integration">>
        with_update == <<"update">> \o phases
    IN  /\ last_event'.loop = "cycle_done" =>
              trace' = IF "wake_rest_controller" \in present
                       THEN with_update ELSE phases
        /\ last_event'.loop = "cycle_error" =>
              \E n \in 0..6 :
                  \/ trace' = SubSeq(phases, 1, n) \o <<"error">>
                  \/ /\ "wake_rest_controller" \in present
                     /\ trace' = SubSeq(with_update, 1, n + 1) \o <<"error">>

C9_PhasesInOrder ==
    []C9_StoredContextsIntegrated /\ [][C9_CompletedIterationStep]_vars

\* an iteration with a controller has gone through the update and all phases
C9_Witness ==
    /\ "wake_rest_controller" \in present
    /\ last_event.loop = "cycle_done"
    /\ last_op = "update"
    /\ Len(trace) = 8
    /\ Len(context_history) > 0
    /\ context_history[Len(context_history)].outputs # {}

\* C10: an error raised in the wake/rest check or in a phase does not end the
\* loop: the step that catches it changes neither cycle_count nor
\* context_history nor running (which is true unless a stop() call has
\* cleared it) and leaves the loop in its backoff sleep; when a sleep of the
\* loop ends with running true a cycle is attempted again; the loop returns
\* only in a step that found running false.
C10_ErrorStep ==
    LET i == last_event'.task
    IN  /\ last_event'.loop = "cycle_error" =>
              /\ UNCHANGED <<cycle_count, context_history>>
              /\ last_event'.kind # "start" => running' = running
              /\ (\A j \in StopCalls : stop_pc[j] = "idle") => running'
              /\ start_pc'[i] = "sleep"
              /\ sleep_for'[i] = 1
        /\ (last_event'.kind = "sleep_done" /\ running) =>
              last_event'.loop \in {"cycle_done", "cycle_error", "await"}
        /\ (last_event'.kind \in {"start", "start_echobeats_done",
                                  "start_echodream_done", "check_start_done",
                                  "check_stop_done", "sleep_done"}
            /\ start_pc'[i] = "returned") =>
              /\ ~running /\ ~running'
              /\ last_event'.loop = "loop_exit"

C10_ErrorsDoNotEndLoop == [][C10_ErrorStep]_vars

\* after errors in the check and in a phase the loop completed a later cycle
C10_Witness ==
    /\ error_count = MaxErrors
    /\ last_event.loop = "cycle_done"
    /\ last_event.kind = "sleep_done"
    /\ running
    /\ "wake_rest_controller" \in present
    /\ cycle_count > 0

-----------------------------------------------------------------------------
\* C11: with a consolidation subsystem present, the pre-tick check awaits the
\* subsystem's Start exactly when update returned RESTING and the running
\* flag is false, awaits its Stop exactly when update returned AWAKE and the
\* flag is true, and awaits neither otherwise (so never after DROWSY,
\* DEEP_REST or WAKING); and when the check has returned (the cycle's phases
\* began), the subsystem is not running if update returned AWAKE and is
\* running if update returned RESTING.
C11_CheckStep ==
    LET i == last_event'.task
        updated == /\ last_event'.kind \in {"start", "start_echobeats_done",
                                            "start_echodream_done", "sleep_done"}
                   /\ trace' # <<>>
                   /\ trace'[1] = "update"
        returned == /\ Len(trace') >= 2
                    /\ trace'[1] = "update"
                    /\ trace'[2] = "perception"
    IN  "echodream" \in present =>
          /\ updated =>
               /\ start_pc'[i] = "check_start"
                      <=> (state' = RESTING /\ ~echodream_running')
               /\ start_pc'[i] = "check_stop"
                      <=> (state' = AWAKE /\ echodream_running')
          /\ ~updated =>
               \/ start_pc'[i] \notin {"check_start", "check_stop"}
               \/ last_event'.kind \in {"stop", "stop_echobeats_done",
                                        "stop_echodream_done"}
          /\ returned =>
               /\ state' = AWAKE => ~echodream_running'
               /\ state' = RESTING => echodream_running'

C11_StartStopOnCheck == [][C11_CheckStep]_vars

\* the check found RESTING and the subsystem stopped, awaited Start, and
\* returned with the subsystem running
C11_Witness ==
    /\ last_event.kind = "check_start_done"
    /\ last_event.loop = "cycle_done"
    /\ state = RESTING
    /\ echodream_running
    /\ "consolidation_active" \in context_history[Len(context_history)].outputs

\* the check made no subsystem call after update returned DROWSY, DEEP_REST
\* or WAKING although the flag would have allowed one
C11_NeitherSeen ==
    /\ "echodream" \in present
    /\ last_event.loop = "cycle_done"
    /\ last_event.kind \in {"start_echodream_done", "sleep_done"}
    /\ state \in {DROWSY, DEEP_REST, WAKING}

-----------------------------------------------------------------------------
\* C12: the composite wisdom score that calculate_composite_wisdom_score
\* returns lies in [0,1] after every sequence of add_insight and
\* add_belief_update calls whose score fields lie in their valid ranges.
C12_CompositeInRange ==
    LET composite == CompositeWisdomScore(wisdom).composite_wisdom
    IN  composite >= 0 /\ composite <= WUnit

\* C13: save_to_file followed by load_from_file yields an object whose
\* calculate_composite_wisdom_score returns the same six scores as the
\* object that was saved.
C13_LoadStep ==
    wisdom_op' = "load_from_file" /\ wisdom_loads' = wisdom_loads + 1
        => CompositeWisdomScore(wisdom') = CompositeWisdomScore(wisdom)

C13_RoundTripScores == [][C13_LoadStep]_vars

\* C14: save_to_file followed by load_from_file yields an EchoInterest object
\* with the same topic engagements, exploration goals, topic clusters,
\* salience per topic and active_interests list as the object that was saved.
C14_LoadStep ==
    interest_op'.op = "load_from_file"
        => /\ interest'.topic_engagements = interest.topic_engagements
           /\ interest'.exploration_goals = interest.exploration_goals
           /\ interest'.topic_clusters = interest.topic_clusters
           /\ interest'.salience_map = interest.salience_map
           /\ interest'.active_interests = interest.active_interests

C14_InterestRoundTrip == [][C14_LoadStep]_vars

C14_Witness ==
    /\ interest_op.op = "load_from_file"
    /\ interest.exploration_goals # <<>>
    /\ interest.topic_clusters # <<>>
    /\ interest.active_interests # <<>>
    /\ \E k \in 1..Len(interest.topic_engagements) :
          interest.topic_engagements[k][2].related_topics # {}

\* C15: should_join_discussion(topic) returns true exactly when the topic is
\* in active_interests, or its stored salience exceeds 0.4, or it is in the
\* related_topics of an active-interest topic, or it shares a cluster with an
\* active-interest topic; so it is true for every active interest and false
\* for a topic of salience 0 that no active interest is related to or
\* clustered with.  The call changes no field of the tracker.
C15_JoinStep ==
    interest_op'.op = "should_join_discussion"
        => LET topic == interest_op'.topic
               active == {interest.active_interests[k] :
                             k \in 1..Len(interest.active_interests)}
               stored == {interest.salience_map[k][2] :
                             k \in {j \in 1..Len(interest.salience_map) :
                                       interest.salience_map[j][1] = topic}}
               salient == \E v \in stored : 10 * v > 4 * IUnit
               related ==
                   \E k \in 1..Len(interest.topic_engagements) :
                       /\ interest.topic_engagements[k][1] \in active
                       /\ topic \in interest.topic_engagements[k][2].related_topics
               clustered ==
                   \E k \in 1..Len(interest.topic_clusters) :
                       /\ topic \in interest.topic_clusters[k][2]
                       /\ \E a \in active : a \in interest.topic_clusters[k][2]
           IN  /\ interest_op'.result
                      = (topic \in active \/ salient \/ related \/ clustered)
               /\ topic \in active => interest_op'.result
               /\ stored \subseteq {0} /\ ~related /\ ~clustered
                      => ~interest_op'.result
               /\ interest' = interest

C15_JoinDiscussionRule == [][C15_JoinStep]_vars

\* an untracked topic is joined because an active interest is related to it
C15_Witness ==
    /\ interest_op.op = "should_join_discussion"
    /\ interest_op.result
    /\ ~DictHas(interest.salience_map, interest_op.topic)
    /\ interest.active_interests # <<>>

\* C16: the topic clusters are pairwise disjoint after every sequence of
\* add_topic_relation calls, and a relation that bridges two different
\* clusters leaves one cluster that holds the union of both.
C16_Disjoint ==
    \A j, k \in 1..Len(interest.topic_clusters) :
        j # k => interest.topic_clusters[j][2] \cap interest.topic_clusters[k][2] = {}

C16_BridgeStep ==
    LET topic1 == interest_op'.topic
        topic2 == interest_op'.other
        old == interest.topic_clusters
        new == interest'.topic_clusters
        Holding(clusters, topic) == {k \in 1..Len(clusters) : topic \in clusters[k][2]}
    IN  /\ interest_op'.op = "add_topic_relation"
        /\ Holding(old, topic1) # {}
        /\ Holding(old, topic2) # {}
        /\ Holding(old, topic1) \cap Holding(old, topic2) = {}
        => /\ Len(new) = Len(old) - 1
           /\ \E k \in 1..Len(new) :
                 /\ \A j \in Holding(old, topic1) \cup Holding(old, topic2) :
                        old[j][2] \subseteq new[k][2]
                 /\ \A j \in 1..Len(new) :
                        j # k => \E i \in 1..Len(old) : new[j] = old[i]

C16_ClustersDisjoint == []C16_Disjoint /\ [][C16_BridgeStep]_vars

\* two clusters have just been merged and another cluster is left
C16_Witness ==
    /\ interest_op.op = "add_topic_relation"
    /\ interest_op.result
    /\ Len(interest.topic_clusters) >= 2

\* C17: the recorded relation is symmetric: for every two tracked topics a
\* and b, b is in a's related_topics if and only if a is in b's.
C17_RelationSymmetric ==
    \A j, k \in 1..Len(interest.topic_engagements) :
        LET a == interest.topic_engagements[j]
            b == interest.topic_engagements[k]
        IN  b[1] \in a[2].related_topics <=> a[1] \in b[2].related_topics

\* C18: after every record_topic_encounter and every decay_interests call,
\* active_interests has at most 5 entries and no duplicates, every entry is a
\* tracked topic of stored salience > 0.3, and no topic outside the list has
\* a stored salience greater than that of a topic inside it.
C18_ActiveInterestsTop ==
    interest_op.op \in {"record_topic_encounter", "decay_interests"}
        => LET active == interest.active_interests
               Stored(topic) ==
                   interest.salience_map[
                       CHOOSE k \in 1..Len(interest.salience_map) :
                           interest.salience_map[k][1] = topic][2]
               tracked == {interest.topic_engagements[k][1] :
                              k \in 1..Len(interest.topic_engagements)}
           IN  /\ Len(active) <= 5
               /\ \A j, k \in 1..Len(active) : j # k => active[j] # active[k]
               /\ \A k \in 1..Len(active) :
                     /\ active[k] \in tracked
                     /\ 10 * Stored(active[k]) > 3 * IUnit
               /\ \A k \in 1..Len(active) :
                     \A j \in 1..Len(interest.salience_map) :
                         (\A i \in 1..Len(active) :
                              active[i] # interest.salience_map[j][1])
                             => interest.salience_map[j][2] <= Stored(active[k])

\* six topics of salience > 0.3 are tracked and five of them are active
C18_Witness ==
    /\ interest_op.op = "record_topic_encounter"
    /\ Len(interest.active_interests) = 5
    /\ Len(interest.salience_map) = 6
    /\ \A k \in 1..6 : 10 * interest.salience_map[k][2] > 3 * IUnit

\* C19: the salience record_topic_encounter stores for the topic is
\* 0.3*recency + 0.2*min(1, encounter_count/10) + 0.2*(valence+1)/2
\* + 0.2*curiosity + 0.1*(1 - 2*|progress-0.5|) of the topic's engagement
\* after the encounter; for a first encounter with valence 0 and learning it
\* is 0.3*1.0 + 0.2*0.1 + 0.2*0.5 + 0.2*0.7 + 0.1*0.2.
C19_FirstEncounterSalience ==
    (3 * IUnit + 2 * (IUnit \div 10) + 2 * (IUnit \div 2)
     + 2 * ((7 * IUnit) \div 10) + (2 * IUnit) \div 10) \div 10

C19_EncounterStep ==
    interest_op'.op = "record_topic_encounter"
        => LET topic == interest_op'.topic
               g == interest'.topic_engagements[
                        CHOOSE k \in 1..Len(interest'.topic_engagements) :
                            interest'.topic_engagements[k][1] = topic][2]
               stored == interest'.salience_map[
                             CHOOSE k \in 1..Len(interest'.salience_map) :
                                 interest'.salience_map[k][1] = topic][2]
               recency == Recency(interest_now' - g.last_encounter)
               frequency == IF g.encounter_count >= 10 THEN IUnit
                            ELSE (g.encounter_count * IUnit) \div 10
               distance == IF 2 * g.learning_progress >= IUnit
                           THEN 2 * g.learning_progress - IUnit
                           ELSE IUnit - 2 * g.learning_progress
           IN  /\ stored = (3 * recency + 2 * frequency
                            + 2 * ((g.emotional_valence + IUnit) \div 2)
                            + 2 * g.curiosity_level + (IUnit - distance)) \div 10
               /\ recency = IUnit
               /\ (/\ g.encounter_count = 1
                   /\ g.emotional_valence = 0
                   /\ 10 * g.learning_progress = IUnit)
                      => stored = C19_FirstEncounterSalience

C19_SalienceFormula == [][C19_EncounterStep]_vars

\* a first encounter with valence 0 and learning has stored 0.58
C19_Witness ==
    /\ interest_op.op = "record_topic_encounter"
    /\ \E k \in 1..Len(interest.topic_engagements) :
          /\ interest.topic_engagements[k][1] = interest_op.topic
          /\ interest.topic_engagements[k][2].encounter_count = 1
          /\ interest.topic_engagements[k][2].emotional_valence = 0
          /\ 10 * interest.topic_engagements[k][2].learning_progress = IUnit
          /\ interest.salience_map[k] = <<interest_op.topic, 5800>>

\* C20: total_cycles is incremented by exactly 1 and _update_optimal_durations
\* is applied exactly once on every transition into WAKING and at no other
\* time; force_wake and force_rest never enter WAKING and change neither
\* total_cycles nor the optimal durations.
C20_CycleStep ==
    LET into_waking == {k \in 1..Len(op_transitions') : op_transitions'[k][2] = WAKING}
        learned == UpdateOptimalDurations(
                       [optimal_activity_duration |-> optimal_activity_duration,
                        optimal_rest_duration |-> optimal_rest_duration,
                        recent_processing_quality |-> recent_processing_quality',
                        activity_duration |-> activity_duration',
                        rest_duration |-> rest_duration'])
    IN  /\ Cardinality(into_waking) <= 1
        /\ total_cycles' = total_cycles + Cardinality(into_waking)
        /\ into_waking # {}
               => /\ optimal_activity_duration' = learned.optimal_activity_duration
                  /\ optimal_rest_duration' = learned.optimal_rest_duration
        /\ into_waking = {}
               => /\ optimal_activity_duration' = optimal_activity_duration
                  /\ optimal_rest_duration' = optimal_rest_duration
        /\ last_op' \in {"force_rest", "force_wake"} => into_waking = {}

C20_CyclesCountWaking == [][C20_CycleStep]_vars

\* an update has just entered WAKING: one cycle counted, durations learned
C20_Witness ==
    /\ last_op = "update"
    /\ state = WAKING
    /\ \E k \in 1..Len(op_transitions) : op_transitions[k][2] = WAKING
    /\ total_cycles = 1
    /\ optimal_activity_duration # NewController.optimal_activity_duration

\* C21: generate_exploration_goal with the topic omitted returns none and
\* appends nothing when no tracked topic has curiosity > 0.5 and
\* learning_progress < 0.8; with an explicit untracked topic it returns none
\* and appends nothing; otherwise it appends exactly one goal with progress 0
\* and completed = false, and when the topic was omitted the goal's topic
\* maximizes curiosity*salience among the topics with curiosity > 0.5 and
\* progress < 0.8.
C21_GoalStep ==
    interest_op'.op = "generate_exploration_goal"
        => LET engs == interest.topic_engagements
               tracked == {engs[k][1] : k \in 1..Len(engs)}
               candidates == {k \in 1..Len(engs) :
                                 /\ 10 * engs[k][2].curiosity_level > 5 * IUnit
                                 /\ 10 * engs[k][2].learning_progress < 8 * IUnit}
               Salience(topic) ==
                   IF \E j \in 1..Len(interest.salience_map) :
                          interest.salience_map[j][1] = topic
                   THEN interest.salience_map[
                            CHOOSE j \in 1..Len(interest.salience_map) :
                                interest.salience_map[j][1] = topic][2]
                   ELSE 0
               Product(k) == engs[k][2].curiosity_level * Salience(engs[k][1])
               omitted == interest_op'.topic = "None"
               nothing == /\ interest' = interest
                          /\ ~interest_op'.result
               goals == interest.exploration_goals
               appended ==
                   /\ interest_op'.result
                   /\ Len(interest'.exploration_goals) = Len(goals) + 1
                   /\ SubSeq(interest'.exploration_goals, 1, Len(goals)) = goals
                   /\ interest'.exploration_goals[Len(goals) + 1].progress = 0
                   /\ ~interest'.exploration_goals[Len(goals) + 1].completed
                   /\ interest'.topic_engagements = interest.topic_engagements
               chosen == interest'.exploration_goals[Len(goals) + 1].topic
           IN  IF omitted /\ candidates = {} THEN nothing
               ELSE IF ~omitted /\ interest_op'.topic \notin tracked THEN nothing
               ELSE /\ appended
                    /\ ~omitted => chosen = interest_op'.topic
                    /\ omitted =>
                          \E k \in candidates :
                              /\ engs[k][1] = chosen
                              /\ \A j \in candidates : Product(j) <= Product(k)

C21_GoalGeneration == [][C21_GoalStep]_vars

\* the topic was omitted and the goal is for a topic that is not the first
\* candidate
C21_Witness ==
    /\ interest_op.op = "generate_exploration_goal"
    /\ interest_op.topic = "None"
    /\ interest_op.result
    /\ Len(interest.topic_engagements) >= 2
    /\ 10 * interest.topic_engagements[1][2].curiosity_level > 5 * IUnit
    /\ interest.exploration_goals[Len(interest.exploration_goals)].topic
           # interest.topic_engagements[1][1]

\* the topic was omitted, topics are tracked and none is a candidate
C21_NoCandidate ==
    /\ interest_op.op = "generate_exploration_goal"
    /\ interest_op.topic = "None"
    /\ ~interest_op.result
    /\ interest.topic_engagements # <<>>

\* C22: the exploration-goal list is append-only: no operation removes or
\* reorders a goal, a goal is mutated only by update_goal_progress, which
\* changes at most one goal, and a goal whose progress update_goal_progress
\* has set to a value >= its target_depth has completed = true.
C22_GoalListStep ==
    LET old == interest.exploration_goals
        new == interest'.exploration_goals
        changed == {k \in 1..Len(old) : k <= Len(new) /\ new[k] # old[k]}
    IN  /\ Len(new) >= Len(old)
        /\ \A k \in 1..Len(old) :
              /\ new[k].id = old[k].id
              /\ new[k].topic = old[k].topic
              /\ new[k].created = old[k].created
              /\ new[k].priority = old[k].priority
              /\ new[k].target_depth = old[k].target_depth
        /\ changed # {} => /\ interest_op'.op = "update_goal_progress"
                           /\ Len(new) = Len(old)
                           /\ Cardinality(changed) = 1
        /\ \A k \in changed :
              new[k].progress >= new[k].target_depth => new[k].completed

C22_CompletedOnceDeepEnough ==
    \A k \in 1..Len(interest.exploration_goals) :
        interest.exploration_goals[k].progress >= interest.exploration_goals[k].target_depth
            => interest.exploration_goals[k].completed

C22_GoalsAppendOnly == []C22_CompletedOnceDeepEnough /\ [][C22_GoalListStep]_vars

\* one of two goals has just been completed
C22_Witness ==
    /\ interest_op.op = "update_goal_progress"
    /\ Len(interest.exploration_goals) >= 2
    /\ \E k \in 1..Len(interest.exploration_goals) :
          /\ interest.exploration_goals[k].completed
          /\ interest.exploration_goals[k].progress = IUnit
    /\ \E k \in 1..Len(interest.exploration_goals) :
          ~interest.exploration_goals[k].completed

\* C23: each add_insight and each add_belief_update call appends exactly one
\* record to its own log, leaving the other log and all earlier records
\* unchanged, moves current_coherence by 0.05 times the record's coherence
\* contribution or impact, clamped to [0,1], appends exactly one
\* coherence-history sample equal to the new current_coherence, and appends
\* exactly one wisdom-history snapshot; current_coherence is in [0,1] in
\* every reachable state.
C23_AddStep ==
    wisdom_op' \in {"add_insight", "add_belief_update"}
        => LET insight == wisdom_op' = "add_insight"
               amount == IF insight THEN wisdom_arg'.coherence_contribution
                         ELSE wisdom_arg'.coherence_impact
               moved == wisdom.current_coherence + amount \div 20
               clamped == IF moved < 0 THEN 0
                          ELSE IF moved > WUnit THEN WUnit ELSE moved
           IN  /\ insight => /\ wisdom'.insights = Append(wisdom.insights, wisdom_arg')
                             /\ wisdom'.belief_updates = wisdom.belief_updates
               /\ ~insight => /\ wisdom'.belief_updates
                                     = Append(wisdom.belief_updates, wisdom_arg')
                              /\ wisdom'.insights = wisdom.insights
               /\ wisdom'.current_coherence = clamped
               /\ wisdom'.worldview_coherence_history
                      = Append(wisdom.worldview_coherence_history, clamped)
               /\ Len(wisdom'.wisdom_history) = Len(wisdom.wisdom_history) + 1
               /\ SubSeq(wisdom'.wisdom_history, 1, Len(wisdom.wisdom_history))
                      = wisdom.wisdom_history

C23_CoherenceInRange ==
    wisdom.current_coherence >= 0 /\ wisdom.current_coherence <= WUnit

C23_AddCallsAppend == []C23_CoherenceInRange /\ [][C23_AddStep]_vars

\* an insight has been added with the coherence held at 1 by the clamp
C23_Witness ==
    /\ wisdom_op = "add_insight"
    /\ wisdom.current_coherence = WUnit
    /\ Len(wisdom.worldview_coherence_history) >= 11
    /\ wisdom.belief_updates # <<>>
    /\ Len(wisdom.wisdom_history) = Len(wisdom.insights) + Len(wisdom.belief_updates)

\* C24: computing the scores is free of side effects:
\* calculate_composite_wisdom_score and the five calculate_*_score functions
\* leave insights, belief_updates, domain_knowledge, domain_connections,
\* current_coherence, the coherence history, evidence_integration_score and
\* wisdom_history unchanged, so a repeated poll returns the same scores.
C24_PollStep ==
    wisdom_op' = "calculate_composite_wisdom_score"
        => /\ wisdom'.insights = wisdom.insights
           /\ wisdom'.belief_updates = wisdom.belief_updates
           /\ wisdom'.domain_knowledge = wisdom.domain_knowledge
           /\ wisdom'.domain_connections = wisdom.domain_connections
           /\ wisdom'.current_coherence = wisdom.current_coherence
           /\ wisdom'.worldview_coherence_history = wisdom.worldview_coherence_history
           /\ wisdom'.evidence_integration_score = wisdom.evidence_integration_score
           /\ wisdom'.wisdom_history = wisdom.wisdom_history
           /\ wisdom_scores' = CompositeWisdomScore(wisdom')

C24_ScoresPure == [][C24_PollStep]_vars

\* the scores of an object with insights and belief updates have been polled
C24_Witness ==
    /\ wisdom_op = "calculate_composite_wisdom_score"
    /\ wisdom.insights # <<>>
    /\ wisdom.belief_updates # <<>>
    /\ wisdom.domain_knowledge # <<>>
    /\ wisdom_scores = CompositeWisdomScore(wisdom)

\* C25: should_rest_now and should_wake_now change no controller field;
\* should_rest_now is true exactly when fatigue >= 0.75 or pressure >= 0.7,
\* whatever the state, and should_wake_now is true only when the state is
\* RESTING or DEEP_REST and fatigue < 0.2 and pressure < 0.3.
C25_QueryStep ==
    /\ last_op' \in {"should_rest_now", "should_wake_now"}
           => UNCHANGED wr_vars
    /\ last_op' = "should_rest_now"
           => (last_result' <=> \/ 100 * cognitive_fatigue >= 75 * FScale
                                \/ 10 * consolidation_pressure >= 7 * PScale)
    /\ last_op' = "should_wake_now" /\ last_result'
           => /\ state \in {RESTING, DEEP_REST}
              /\ 10 * cognitive_fatigue < 2 * FScale
              /\ 10 * consolidation_pressure < 3 * PScale

C25_ThresholdQueries == [][C25_QueryStep]_vars

\* should_rest_now answered true for a controller that is not AWAKE
C25_Witness ==
    /\ last_op = "should_rest_now"
    /\ last_result
    /\ state # AWAKE

\* should_wake_now answered true
C25_WakeSeen ==
    /\ last_op = "should_wake_now"
    /\ last_result

\* C26: once stop has set running to false and start is not called again, the
\* orchestration loop finishes at most the cycle it is in, starts no new
\* cycle, and eventually exits (its start call returns).
LoopKinds == {"start_echobeats_done", "start_echodream_done", "check_start_done", "check_stop_done", "sleep_done"}

\* a step of the loop of start() call i taken while running is false
C26_WindDownStep ==
    \A i \in StartCalls :
        (~running /\ LoopAlive(i) /\ last_event'.task = i /\ last_event'.kind \in LoopKinds) =>
            /\ ~running'
            /\ last_op' # "update"
            /\ IF start_pc[i] \in {"check_start", "check_stop"}
               THEN \* the cycle in flight ends, completed or in error
                    /\ start_pc'[i] = "sleep"
                    /\ cycle_count' \in {cycle_count, cycle_count + 1}
                    /\ Len(trace') <= 1 + Len(PhaseOrder)
               ELSE \* no cycle is started
                    /\ start_pc'[i] \in {"returned", "start_echodream"}
                    /\ start_pc[i] = "sleep" => start_pc'[i] = "returned"
                    /\ cycle_count' = cycle_count
                    /\ completed_cycles' = completed_cycles
                    /\ error_count' = error_count
                    /\ context_history' = context_history
                    /\ trace' = <<>>

C26_LoopExits ==
    \A i \in StartCalls :
        (~running /\ LoopAlive(i)) ~> (~LoopAlive(i) \/ running)

C26_CancellationEffective == [][C26_WindDownStep]_vars /\ C26_LoopExits

\* a loop that was told to stop inside a cycle has finished that cycle
C26_InFlightSeen ==
    /\ ~running
    /\ last_event.kind \in {"check_start_done", "check_stop_done"}
    /\ start_pc[last_event.task] = "sleep"

\* a loop that ran cycles was told to stop and has returned, start not having
\* been called again
C26_Witness ==
    /\ ~running
    /\ last_event.kind = "sleep_done"
    /\ last_event.loop = "loop_exit"
    /\ start_pc[1] = "returned"
    /\ start_pc[2] = "idle"
    /\ stop_pc[1] # "idle"
    /\ cycle_count > 0

\* C27: decay_interests leaves, for every tracked topic with a positive time
\* since its last encounter, a curiosity_level in [0,1] that is not greater
\* than the curiosity_level before the call.
C27_DecayStep ==
    interest_op'.op = "decay_interests" =>
        \A k \in 1..Len(interest.topic_engagements) :
            interest_now > interest.topic_engagements[k][2].last_encounter =>
                /\ interest'.topic_engagements[k][2].curiosity_level >= 0
                /\ interest'.topic_engagements[k][2].curiosity_level <= IUnit
                /\ interest'.topic_engagements[k][2].curiosity_level
                       <= interest.topic_engagements[k][2].curiosity_level

C27_DecayDoesNotRaiseCuriosity == [][C27_DecayStep]_vars

\* C28: for encounters with emotional_valence in [-1,1] and satisfaction in
\* [0,1], after any sequence of record_topic_encounter, decay_interests and
\* update_goal_progress calls every tracked topic has emotional_valence in
\* [-1,1], curiosity_level, learning_progress and satisfaction in [0,1] and a
\* stored salience in [0,1]; encounter_count grows by exactly 1 per encounter
\* and no topic is ever removed.
InUnit(x) == 0 <= x /\ x <= IUnit

C28_FieldsInRange ==
    /\ \A k \in 1..Len(interest.topic_engagements) :
          LET engagement == interest.topic_engagements[k][2]
          IN  /\ 0 - IUnit <= engagement.emotional_valence
              /\ engagement.emotional_valence <= IUnit
              /\ InUnit(engagement.curiosity_level)
              /\ InUnit(engagement.learning_progress)
              /\ InUnit(engagement.satisfaction)
    /\ \A k \in 1..Len(interest.salience_map) :
          InUnit(interest.salience_map[k][2])

EncounterCount(e, topic) ==
    IF DictHas(e.topic_engagements, topic)
    THEN DictGet(e.topic_engagements, topic).encounter_count ELSE 0

C28_CountStep ==
    /\ \A topic \in RangeTopics :
          /\ DictHas(interest.topic_engagements, topic)
                 => DictHas(interest'.topic_engagements, topic)
          /\ EncounterCount(interest', topic) =
                 EncounterCount(interest, topic)
                 + (IF /\ interest_op'.op = "record_topic_encounter"
                       /\ interest_op'.topic = topic
                    THEN 1 ELSE 0)
    /\ Len(interest'.topic_engagements) >= Len(interest.topic_engagements)

C28_RangesAndCounts == []C28_FieldsInRange /\ [][C28_CountStep]_vars

\* curiosity_level and emotional_valence at the top of their ranges after
\* an encounter, a day having passed and a goal's progress having been reported
C28_Witness ==
    /\ interest_op.op = "record_topic_encounter"
    /\ EncounterCount(interest, "ai") >= 3
    /\ DictGet(interest.topic_engagements, "ai").curiosity_level = IUnit
    /\ DictGet(interest.topic_engagements, "ai").emotional_valence = IUnit
    /\ interest_now > 0
    /\ \E k \in 1..Len(interest.exploration_goals) :
          interest.exploration_goals[k].progress > 0

\* curiosity_level worn down to 0
C28_CuriosityGone ==
    /\ DictHas(interest.topic_engagements, "ai")
    /\ DictGet(interest.topic_engagements, "ai").curiosity_level = 0

\* C29: a missing optional subsystem is never an error: for every subset of
\* the seven optional collaborators being absent (all of them included) each
\* orchestration cycle completes all seven phases, increments cycle_count and
\* stores a context, and the outputs carry a subsystem's flag
\* (emotion_system_active, tom_active, interest_tracking_active,
\* consolidation_active, echobeats_step) only if that subsystem is present;
\* consolidation_active also requires the controller state to be RESTING or
\* DEEP_REST.
FlagOwner ==
    [emotion_system_active |-> "emotion_system",
     tom_active |-> "theory_of_mind",
     interest_tracking_active |-> "interest_tracker",
     consolidation_active |-> "echodream",
     echobeats_step |-> "echobeats"]

\* what a loop iteration that raised had reached: the collaborator calls made
\* up to there are calls on collaborators that are present
RaisedInPresent(did) ==
    LET at == IF Len(did) > 1 THEN did[Len(did) - 1] ELSE "check" IN
    CASE at \in {"check", "update"} ->
             /\ "wake_rest_controller" \in present
             /\ {"wisdom_metrics", "echodream"} \cap present # {}
      [] at = PERCEPTION -> {"interest_tracker", "wisdom_metrics"} \cap present # {}
      [] at = COGNITION -> "echobeats" \in present
      [] at = LEARNING -> "wisdom_metrics" \in present
      [] OTHER -> FALSE

C29_CycleStep ==
    /\ last_event'.loop = "cycle_error" => RaisedInPresent(trace')
    /\ last_event'.loop = "cycle_done" =>
          LET n == Len(context_history')
              ctx == context_history'[n]
              phases == SubSeq(trace', Len(trace') - Len(PhaseOrder) + 1, Len(trace'))
          IN  /\ Len(trace') >= Len(PhaseOrder)
              /\ phases = PhaseOrder
              /\ cycle_count' = cycle_count + 1
              /\ n = Min(Len(context_history) + 1, HistoryCap)
              /\ ctx.cycle = cycle_count
              /\ ctx.integration_complete
              /\ \A f \in DOMAIN FlagOwner :
                    f \in ctx.outputs => FlagOwner[f] \in present
              /\ "consolidation_active" \in ctx.outputs =>
                    /\ "wake_rest_controller" \in present
                    /\ state' \in {RESTING, DEEP_REST}

C29_AbsentNeverAnError ==
    /\ [](present = {} => error_count = 0)
    /\ [][C29_CycleStep]_vars

\* cycles completed with every collaborator absent
C29_Witness ==
    /\ present = {}
    /\ last_event.loop = "cycle_done"
    /\ cycle_count = MaxShortCycles
    /\ context_history[cycle_count].outputs = {}

\* a cycle that reported consolidation, its only flag
C29_ConsolidationSeen ==
    /\ last_event.loop = "cycle_done"
    /\ context_history[Len(context_history)].outputs = {"consolidation_active"}

\* C30: at any time at most one orchestration loop is executing cycles for an
\* orchestrator, across every interleaving of start and stop calls from
\* concurrent tasks (stop immediately followed by start, before the old loop
\* has seen running = false, included).
LoopsInCycles == {i \in StartCalls : start_pc[i] \in {"sleep", "check_start", "check_stop"}}

C30_AtMostOneLoop == running => Cardinality(LoopsInCycles) <= 1

\* C31: once a stop() call has returned and start is not called again, no
\* orchestration cycle completes afterwards (cycle_count and context_history
\* stay unchanged) and the consolidation subsystem, if present, is not
\* running, for every interleaving of stop with a loop iteration suspended at
\* an awaited subsystem Start/Stop call.
C31_AfterStopStep ==
    stop_pc[1] = "returned" =>
        /\ cycle_count' = cycle_count
        /\ context_history' = context_history

C31_StoppedMeansStopped ==
    /\ [](stop_pc[1] = "returned" /\ "echodream" \in present => ~echodream_running)
    /\ [][C31_AfterStopStep]_vars

\* C32: any two topics passed together to add_topic_relation are in the same
\* cluster afterwards, and stay in the same cluster after every later
\* add_topic_relation call (creating, extending or merging clusters never
\* drops a topic from its cluster).
SameCluster(e, topic1, topic2) ==
    \E k \in 1..Len(e.topic_clusters) : {topic1, topic2} \subseteq e.topic_clusters[k][2]

C32_RelationStep ==
    interest_op'.op = "add_topic_relation" =>
        /\ SameCluster(interest', interest_op'.topic, interest_op'.other)
        /\ \A topic1, topic2 \in ClusterTopics :
              SameCluster(interest, topic1, topic2)
                  => SameCluster(interest', topic1, topic2)

C32_ClustersKeepTopics == [][C32_RelationStep]_vars

\* C33: with update, force_rest and force_wake on a fresh controller, an
\* update made in AWAKE or DROWSY lowers neither cognitive_fatigue nor
\* consolidation_pressure, and no update takes DROWSY back to AWAKE: a step
\* that leaves DROWSY enters RESTING or is a forced transition.
C33_DrowsyStep ==
    /\ (last_op' = "update" /\ state \in {AWAKE, DROWSY}) =>
          /\ cognitive_fatigue' >= cognitive_fatigue
          /\ consolidation_pressure' >= consolidation_pressure
    /\ (state = DROWSY /\ state' # DROWSY) =>
          \/ last_op' = "update" /\ state' = RESTING
          \/ last_op' \in {"force_rest", "force_wake"}

C33_DrowsyNeverRecovers == [][C33_DrowsyStep]_vars

\* an update has ended a DROWSY period that began below the drowsy threshold
C33_Witness ==
    /\ last_op = "update"
    /\ op_transitions = <<<<DROWSY, RESTING>>>>
    /\ cognitive_fatigue < drowsy_threshold

\* C34: an update made in WAKING leaves cognitive_fatigue,
\* consolidation_pressure, activity_duration, rest_duration, total_cycles and
\* both optimal durations as they were; it appends the quality sample, and it
\* moves the state to AWAKE exactly when more than 10 s have passed in WAKING.
C34_WakingStep ==
    (last_op' = "update" /\ state = WAKING) =>
        /\ UNCHANGED <<cognitive_fatigue, consolidation_pressure,
                       activity_duration, rest_duration, total_cycles,
                       optimal_activity_duration, optimal_rest_duration>>
        /\ \E q \in Quality :
              recent_processing_quality' =
                  LastN(Append(recent_processing_quality, q), RecentCap)
        /\ state' = IF time_in_state > 10 THEN AWAKE ELSE WAKING
        /\ op_transitions' =
              IF time_in_state > 10 THEN <<<<WAKING, AWAKE>>>> ELSE <<>>

C34_WakingUpdateFrame == [][C34_WakingStep]_vars

\* an update has moved a controller with history from WAKING to AWAKE
C34_Witness ==
    /\ last_op = "update"
    /\ op_transitions = <<<<WAKING, AWAKE>>>>
    /\ total_cycles = 1
    /\ rest_duration > 0

\* an update has left a controller in WAKING
C34_StillWaking ==
    /\ last_op = "update"
    /\ op_transitions = <<>>
    /\ state = WAKING

\* the fatigue a fresh controller has after a single default update made t
\* seconds after construction
SingleUpdateFatigue(t) ==
    Update([NewController EXCEPT !.time_in_state = t], 80, 80, 0, FALSE).cognitive_fatigue

\* C35: the fatigue accumulated over a span of time in AWAKE with constant
\* inputs does not depend on the number of update calls: after any number of
\* default updates the fatigue is that of one update at the end of the span.
C35_FatigueIndependentOfCalls ==
    (last_op = "update" /\ state = AWAKE) =>
        cognitive_fatigue = SingleUpdateFatigue(time_in_state)

-----------------------------------------------------------------------------
\* ---- a caller that keeps calling update while time passes, reporting the
\* same processing quality at every call and never a consolidation

\* a controller that is AWAKE again after a rest with poor processing quality
\* (force_rest, an update that wakes it, an update 15 s later)
RestedController ==
    Update([Update(ForceRestOp(NewController), 0, 0, 0, FALSE)
                EXCEPT !.time_in_state = 15], 0, 0, 0, FALSE)

\* controllers entering a rest period: 50 minutes of activity, an update
\* that stores the new memories, then force_rest()
RestingControllers ==
    {ForceRestOp(Update([base EXCEPT !.time_in_state = 3000], q, 100, m, FALSE)) :
        base \in {NewController, RestedController}, q \in {0, 80}, m \in {0, 30}}

InitRest ==
    /\ \E c \in RestingControllers : HoldsController(c)
    /\ InitOrchestrator({"wake_rest_controller"})
    /\ InitLibraries

\* update(q, coherence, 0, False), q being the quality the caller reported at
\* its last call; the caller goes on until the controller is AWAKE
RestUpdate ==
    /\ state # AWAKE
    /\ \E c \in Coherence :
          \E after \in {Update(Controller, recent_processing_quality[
                                   Len(recent_processing_quality)], c, 0, FALSE)} :
              /\ StoreController(after)
              /\ RecordCall("update", after)
    /\ UNCHANGED <<orch_vars, lib_vars>>

RestTick ==
    /\ \E t \in RestGrid :
          /\ t > time_in_state
          /\ time_in_state' = t
    /\ UNCHANGED <<state, cognitive_fatigue, consolidation_pressure,
                   activity_duration, rest_duration, total_cycles,
                   optimal_activity_duration, optimal_rest_duration,
                   recent_processing_quality>>
    /\ NoCall
    /\ UNCHANGED <<orch_vars, lib_vars>>

NextRest == RestUpdate \/ RestTick

\* time keeps advancing, and update keeps being called until the controller
\* is AWAKE
RestFairness ==
    /\ WF_vars(RestTick)
    /\ \/ []<>(state = AWAKE)
       \/ []<><<RestUpdate>>_vars

SpecRest == InitRest /\ [][NextRest]_vars /\ RestFairness

\* C36: with update called again and again while time advances, and no
\* consolidation ever reported, a controller in RESTING or DEEP_REST reaches
\* WAKING, and a controller in WAKING reaches AWAKE, whatever its
\* consolidation_pressure.  (Once the clock of the model has reached the
\* end of RestGrid every further update changes the state or the fatigue, so
\* that the updates RestFairness asks for can always be made.)
C36_UpdateActs ==
    (state # AWAKE /\ \A t \in RestGrid : t <= time_in_state) =>
        \A c \in Coherence :
            LET after == Update(Controller, recent_processing_quality[
                                    Len(recent_processing_quality)], c, 0, FALSE)
            IN  <<after.state, after.cognitive_fatigue>> # <<state, cognitive_fatigue>>

C36_EveryRestEnds ==
    /\ []C36_UpdateActs
    /\ (state \in {RESTING, DEEP_REST}) ~> (state = WAKING)
    /\ (state = WAKING) ~> (state = AWAKE)

\* a deep rest has ended with the pressure still at or above 0.3
C36_Witness ==
    /\ state = WAKING
    /\ op_transitions = <<<<DEEP_REST, WAKING>>>>
    /\ 10 * consolidation_pressure >= 3 * PScale

\* a second rest period has ended, with the rest duration learnt in the first
C36_SecondRestEnded ==
    /\ state = AWAKE
    /\ op_transitions = <<<<WAKING, AWAKE>>>>
    /\ total_cycles = 2
    /\ optimal_rest_duration > 600 * MsPerSecond
    /\ 10 * consolidation_pressure >= 3 * PScale

\* C37: in a WisdomMetrics object changed only by add_insight and
\* add_belief_update, worldview_coherence_history and wisdom_history both have
\* one entry per call, len(insights) + len(belief_updates) entries, and
\* belief_revision_count is len(belief_updates).
C37_HistoriesCountCalls ==
    /\ Len(wisdom.worldview_coherence_history) = Len(wisdom.wisdom_history)
    /\ Len(wisdom.wisdom_history)
          = Len(wisdom.insights) + Len(wisdom.belief_updates)
    /\ wisdom.belief_revision_count = Len(wisdom.belief_updates)

\* calls of both kinds have been made, the last one leaving the scores as
\* they were
C37_Witness ==
    /\ Len(wisdom.insights) >= 2
    /\ Len(wisdom.belief_updates) >= 2
    /\ LET h == wisdom.wisdom_history
       IN  h[Len(h)] = h[Len(h) - 1]

\* C38: after any sequence of generate_exploration_goal and
\* update_goal_progress calls, a goal is completed only if its progress has
\* reached its target_depth, and its progress is in [0,1].
C38_CompletedMatchesProgress ==
    \A k \in 1..Len(interest.exploration_goals) :
        LET goal == interest.exploration_goals[k]
        IN  /\ goal.completed => goal.progress >= goal.target_depth
            /\ 0 <= goal.progress
            /\ goal.progress <= IUnit

\* C39: the goals in exploration_goals have pairwise distinct ids, goals
\* generated for the same topic within the same clock second included.
C39_GoalIdsDistinct ==
    \A j, k \in 1..Len(interest.exploration_goals) :
        j # k => interest.exploration_goals[j].id # interest.exploration_goals[k].id

====
